---- MODULE Spec2Model ----
(***************************************************************************)
(* Structural break detector of the night-lights page                      *)
(* (src/pages/4_NightLight_Breaks.py, find_trend_break).                   *)
(*                                                                         *)
(* A run of Spec is one invocation of find_trend_break on a data frame df  *)
(* of (date, value) rows; a run of SpecPair is an invocation followed by a *)
(* second one.  Dates are month ordinals, values are                       *)
(* small integers, a missing cell (NaN / NaT) is flagged in the row.       *)
(* Floats are modelled exactly where the code's arithmetic is rational     *)
(* (sums, means, residual sums of squares) and in fixed point, LnScale     *)
(* units per nat, where it is not (np.log, the BIC values).  The IEEE      *)
(* specials -inf, +inf and NaN are kept, because np.log(0) yields -inf.    *)
(*                                                                         *)
(* Further specifications follow the code around the detector: SpecPage    *)
(* the night-lights page that calls it, SpecUrban the yearly queries of    *)
(* src/pages/1_UrbanChange.py, SpecParse and SpecClient the Earth Engine   *)
(* initialisation of src/ee_init.py, SpecCloud and SpecPeriods the cloud   *)
(* limit loop and build_periods of src/pages/7_LS_Timelapse.py.  Each has  *)
(* its own variables; the variables of the others keep their idle values.  *)
(***************************************************************************)
EXTENDS Integers, Sequences, FiniteSets, TLC

VARIABLES df, par, pc, x, y, n, bic1, best_bic, best_k, k, delta_bic,
          has_break, result, err, out,
          t,      \* line 94: the time axis of the fits
          rnd,    \* how each degenerate fit rounded in this process
          call,   \* the number of the invocation
          prev    \* the arguments and the outcome of the invocation before

\* nightlights(), the page around the detector
VARIABLES page_pc,     \* the position in nightlights()
          shown,       \* the widgets and layers the page has rendered
          trend,       \* line 253: the dict returned by find_trend_break
          usual_date,  \* line 317
          page_err     \* the exception that ended the page

pageVars == <<page_pc, shown, trend, usual_date, page_err>>

\* the locals of find_trend_break and the bookkeeping of its invocations
detVars == <<df, par, pc, x, y, n, bic1, best_bic, best_k, k, delta_bic,
             has_break, result, err, out, t, rnd, call, prev>>

\* urban_change_with_stats(), the loop over the years
\* (src/pages/1_UrbanChange.py)
VARIABLES uc_pc,     \* the position in the loop of lines 231-238
          uc_i,      \* the index in all_years of the year in hand
          series,    \* line 230
          attempts,  \* the outcomes of the calls of builtup_km2, per year
          uc_df      \* line 238

ucVars == <<uc_pc, uc_i, series, attempts, uc_df>>

\* ee_client_init() (src/ee_init.py)
VARIABLES ee_pc,     \* the position in ee_client_init
          env,       \* st.secrets / os.environ and the state of the client
          ee_calls,  \* the calls made so far, in order
          status     \* the returned string

eeVars == <<ee_pc, env, ee_calls, status>>

\* _parse_service_account_json(raw) (src/ee_init.py)
VARIABLES ps_pc,     \* "call" before, "returned" or "raised" after
          raw,       \* the argument
          files,     \* the files that exist, path |-> content
          parsed     \* the returned dict, or the exception

psVars == <<ps_pc, raw, files, parsed>>

\* the cloud-cover loop of the timelapse page (src/pages/7_LS_Timelapse.py)
VARIABLES tl_pc, max_cloud, before_count, after_count,
          queries    \* the number of calls of prefiltered.size().getInfo()

tlVars == <<tl_pc, max_cloud, before_count, after_count, queries>>

\* build_periods(start_y, end_y) (src/pages/7_LS_Timelapse.py)
VARIABLES bp_pc, start_y, end_y, cur, periods,
          bp_err     \* the exception that ended the call

bpVars == <<bp_pc, start_y, end_y, cur, periods, bp_err>>

otherVars == <<ucVars, eeVars, psVars, tlVars, bpVars>>

vars == <<detVars, pageVars, otherVars>>

(***************************************************************************)
(* Bounds of the explored inputs.                                          *)
(***************************************************************************)
MaxLen == 4
MaxVal == 1

(***************************************************************************)
(* Python's None, as an optional value: <<>> is None, <<v>> is v.          *)
(***************************************************************************)
None == <<>>
Some(v) == <<v>>

(***************************************************************************)
(* Generic helpers.                                                        *)
(***************************************************************************)
Max(a, b) == IF a >= b THEN a ELSE b
Min(a, b) == IF a <= b THEN a ELSE b
Abs(a) == IF a >= 0 THEN a ELSE -a

RECURSIVE SeqSum(_)
SeqSum(s) == IF s = <<>> THEN 0 ELSE Head(s) + SeqSum(Tail(s))

\* np.arange(lo, hi): the ascending sequence lo, lo+1, ..., hi-1
Arange(lo, hi) == [i \in 1..Max(0, hi - lo) |-> lo + i - 1]

(***************************************************************************)
(* Rows of the data frame.                                                 *)
(***************************************************************************)
Row(d, v) == [date |-> d, value |-> v, dna |-> FALSE, vna |-> FALSE]
RowNoValue(d) == [date |-> d, value |-> 0, dna |-> FALSE, vna |-> TRUE]
RowNoDate(v) == [date |-> 0, value |-> v, dna |-> TRUE, vna |-> FALSE]

\* a dropna() that drops nothing
DropNaKeep(rows) == rows

\* df[[date_col, value_col]].dropna(): rows with a missing cell are removed
RECURSIVE DropNa(_)
DropNa(rows) ==
    IF rows = <<>> THEN <<>>
    ELSE IF Head(rows).dna \/ Head(rows).vna THEN DropNa(Tail(rows))
         ELSE <<Head(rows)>> \o DropNa(Tail(rows))

\* index of the row with the smallest date (first one on equal dates)
RECURSIVE MinDateIdx(_, _, _)
MinDateIdx(rows, i, best) ==
    IF i > Len(rows) THEN best
    ELSE MinDateIdx(rows, i + 1,
                    IF rows[i].date < rows[best].date THEN i ELSE best)

RemoveAt(s, i) == SubSeq(s, 1, i - 1) \o SubSeq(s, i + 1, Len(s))

\* a sort that leaves the rows in the order given
KeepRowOrder(rows) == rows


\* x.sort_values(date_col).reset_index(drop=True)
RECURSIVE SortByDate(_)
SortByDate(rows) ==
    IF rows = <<>> THEN <<>>
    ELSE LET i == MinDateIdx(rows, 1, 1)
         IN  <<rows[i]>> \o SortByDate(RemoveAt(rows, i))

\* lines 86-88: the cleaned, sorted copy of the two columns
CleanFrame(rows) == SortByDate(DropNa(rows))

\* a cleaning done in place, on the frame of the caller
FrameCleanedInPlace(rows) == CleanFrame(rows)

\* lines 86-88: the frame of the caller after the cleaning.  The column
\* selection, dropna() and copy() each build a new frame, and the dates are
\* converted and sorted on that copy.
FrameAfterCleaning(rows) == rows

\* line 90: y = x[value_col].astype(float).to_numpy(); y[i] of the code
\* is Y0(ys, i) (numpy indices are 0-based)
ValuesOf(rows) == [i \in 1..Len(rows) |-> rows[i].value]
Y0(ys, i) == ys[i + 1]

(***************************************************************************)
(* Floats.  A float is [c |-> class, v |-> value]: class "fin" with a      *)
(* value in fixed point, or one of the IEEE specials.                      *)
(***************************************************************************)
Fin(v) == [c |-> "fin", v |-> v]
NInf == [c |-> "ninf", v |-> 0]
PInf == [c |-> "pinf", v |-> 0]
NaN == [c |-> "nan", v |-> 0]

\* a < b on floats: every comparison with NaN is false
FLt(a, b) ==
    CASE a.c = "nan" \/ b.c = "nan" -> FALSE
      [] a.c = "ninf" -> b.c # "ninf"
      [] a.c = "pinf" -> FALSE
      [] b.c = "ninf" -> FALSE
      [] b.c = "pinf" -> TRUE
      [] OTHER -> a.v < b.v

\* a <= b on floats
FLe(a, b) ==
    CASE a.c = "nan" \/ b.c = "nan" -> FALSE
      [] a.c = "ninf" -> TRUE
      [] b.c = "pinf" -> TRUE
      [] a.c = "pinf" -> FALSE
      [] b.c = "ninf" -> FALSE
      [] OTHER -> a.v <= b.v

\* a - b on floats: inf - inf of the same sign is NaN
FSub(a, b) ==
    CASE a.c = "nan" \/ b.c = "nan" -> NaN
      [] a.c = "fin" /\ b.c = "fin" -> Fin(a.v - b.v)
      [] a.c = "fin" -> IF b.c = "ninf" THEN PInf ELSE NInf
      [] b.c = "fin" -> a
      [] OTHER -> IF a.c = b.c THEN NaN ELSE a

(***************************************************************************)
(* np.log in fixed point: LnInt(N) is LnScale * ln(N) for an integer       *)
(* N >= 1, from N = m * 2^e with m in [1, 2) and                           *)
(* ln(m) = 2 * atanh((m - 1) / (m + 1)).                                   *)
(***************************************************************************)
LnScale == 10000

RECURSIVE Pow2(_)
Pow2(e) == IF e <= 0 THEN 1 ELSE 2 * Pow2(e - 1)

RECURSIVE Log2Floor(_)
Log2Floor(N) == IF N <= 1 THEN 0 ELSE 1 + Log2Floor(N \div 2)

LnInt(N) ==
    LET e == Log2Floor(N)
        M == IF e > 16 THEN N \div Pow2(e - 16) ELSE N * Pow2(16 - e)
        z == ((M - 65536) * LnScale) \div (M + 65536)
        z2 == (z * z) \div LnScale
        z3 == (z2 * z) \div LnScale
        z5 == (z3 * z2) \div LnScale
        z7 == (z5 * z2) \div LnScale
    IN  (e * 693147) \div 100 + 2 * (z + z3 \div 3 + z5 \div 5 + z7 \div 7)

(***************************************************************************)
(* Least squares.  The residual sum of squares of the best line through    *)
(* the m points (ts[i], s[i]) is Syy_c - Sty_c^2 / Stt_c on the centred    *)
(* sums, that is the rational A/m - B^2/(m*D) with A = m*Syy - Sy^2,       *)
(* B = m*Sty - St*Sy and D = m*Stt - St^2; up to two points are fitted     *)
(* exactly.  A rational is [num, den] in lowest terms with den > 0.        *)
(***************************************************************************)
RECURSIVE Gcd(_, _)
Gcd(a, b) == IF b = 0 THEN a ELSE Gcd(b, a % b)

Rat(a, b) == LET g == Gcd(Abs(a), b) IN [num |-> a \div g, den |-> b \div g]
RatAdd(p, q) ==
    LET g == Gcd(p.den, q.den)
    IN  Rat(p.num * (q.den \div g) + q.num * (p.den \div g),
            p.den * (q.den \div g))
RatSub(p, q) == RatAdd(p, [num |-> -q.num, den |-> q.den])

SumTY(ts, s) == SeqSum([i \in 1..Len(s) |-> ts[i] * s[i]])
SumYY(s) == SeqSum([i \in 1..Len(s) |-> s[i] * s[i]])

\* a time axis taken from the timestamps
TimeAxisFromDates(rows) == [i \in 1..Len(rows) |-> rows[i].date]

\* line 94: t = np.arange(n), n the number of cleaned rows
TimeAxis(rows) == [i \in 1..Len(rows) |-> i - 1]

\* lines 97-99: sse of the fit of value ~ 1 + t over the points (ts, s)
LineSSE(ts, s) ==
    LET m == Len(s)
        A == m * SumYY(s) - SeqSum(s) * SeqSum(s)
        D == m * SumYY(ts) - SeqSum(ts) * SeqSum(ts)
        B == m * SumTY(ts, s) - SeqSum(ts) * SeqSum(s)
        r == Rat(B, m * D)
    IN  IF m <= 2 THEN Rat(0, 1)
        ELSE RatSub(Rat(A, m), Rat(r.num * B, r.den))

\* lines 105-109: sse of the fit of value ~ 1 + t + I + (t - t[k])*I.  The
\* columns span one free line over the samples before k (where I = 0) and
\* one free line over the samples from k on (where I = 1), so the residual
\* is the sum of the two single-line residuals.
\* For kk <= 0 the column I is all ones and dt is t shifted, so the four
\* columns span the single line only.
SplitSSE(ts, ys, kk) ==
    IF kk <= 0 THEN LineSSE(ts, ys)
    ELSE RatAdd(LineSSE(SubSeq(ts, 1, kk), SubSeq(ys, 1, kk)),
                LineSSE(SubSeq(ts, kk + 1, Len(ys)),
                        SubSeq(ys, kk + 1, Len(ys))))

(***************************************************************************)
(* A fit whose exact residual is 0 leaves either 0.0 or a rounding residue *)
(* of the order of 1e-30 in floating point, depending on the LAPACK build: *)
(* np.log of the first is -inf, of the second about TinyLn / LnScale.      *)
(***************************************************************************)
ZeroOutcomes == {"zero", "tiny"}
TinyLn == -690000

\* The arithmetic is deterministic: within one process the same fit of the
\* same arrays rounds the same way every time.  memo holds the outcomes
\* seen so far, kk = -1 standing for the single fit.
ZeroChoicesFresh(memo, ts, ys, kk) == ZeroOutcomes

ZeroChoices(memo, ts, ys, kk) ==
    LET known == {e \in memo : e.ts = ts /\ e.ys = ys /\ e.kk = kk}
    IN  IF known = {} THEN ZeroOutcomes ELSE {e.z : e \in known}

Remember(memo, ts, ys, kk, sse, z) ==
    IF sse.num = 0
    THEN memo \cup {[ts |-> ts, ys |-> ys, kk |-> kk, z |-> z]}
    ELSE memo

\* np.log(sse / n)
LogSseOverN(sse, m, z) ==
    IF sse.num = 0
    THEN IF z = "zero" THEN NInf ELSE Fin(TinyLn)
    ELSE Fin(LnInt(sse.num) - LnInt(sse.den * m))

\* lines 100, 110: n*np.log(sse/n) + p*np.log(n), p the number of columns
Bic(sse, m, p, z) ==
    LET l == LogSseOverN(sse, m, z)
    IN  IF l.c = "fin" THEN Fin(m * l.v + p * LnInt(m)) ELSE l

(***************************************************************************)
(* find_trend_break's representative search.                               *)
(***************************************************************************)
\* a pre segment y[:k+1] that takes the sample at k as well
PreSegInclusive(ys, kk) == SubSeq(ys, 1, Min(kk + 1, Len(ys)))

\* line 127: pre = y[:k]
PreSeg(ys, kk) == SubSeq(ys, 1, kk)
\* line 127: post = y[k:]
PostSeg(ys, kk) == SubSeq(ys, kk + 1, Len(ys))

\* line 128, ndarray.mean(): the sum and the count of the values
Mean(s) == [sum |-> SeqSum(s), cnt |-> Len(s)]

\* np.abs(y[c] - mean), times the count of the mean (a positive factor)
Dist(ys, i, mean) == Abs(Y0(ys, i) * mean.cnt - mean.sum)

\* an argmin that keeps the last smallest distance
RECURSIVE ArgMinLast(_, _, _, _, _)
ArgMinLast(ys, cands, mean, j, best) ==
    IF j > Len(cands) THEN best
    ELSE ArgMinLast(ys, cands, mean, j + 1,
                    IF Dist(ys, cands[j], mean) <= Dist(ys, cands[best], mean)
                    THEN j ELSE best)

\* np.argmin over the candidates: the position (1-based) of the first
\* smallest distance
RECURSIVE ArgMinFrom(_, _, _, _, _)
ArgMinFrom(ys, cands, mean, j, best) ==
    IF j > Len(cands) THEN best
    ELSE ArgMinFrom(ys, cands, mean, j + 1,
                    IF Dist(ys, cands[j], mean) < Dist(ys, cands[best], mean)
                    THEN j ELSE best)

\* lines 134, 139: candidates[np.argmin(np.abs(y[candidates] - mean))]
Closest(ys, cands, mean) == cands[ArgMinFrom(ys, cands, mean, 1, 1)]

\* line 131
PreLo(kk, p) == Max(0, kk - p.pre_window - 1)

\* a pre window that ends at k and so takes the sample k-1
PreHiInclusive(kk, p) == Max(PreLo(kk, p), kk)

\* line 132
PreHi(kk, p) == Max(PreLo(kk, p), kk - 1)

\* a pre search that always takes the full range
PreCandidatesFull(kk, p) == Arange(0, kk)

\* line 133
PreCandidates(kk, p) ==
    IF PreHi(kk, p) > PreLo(kk, p) THEN Arange(PreLo(kk, p), PreHi(kk, p))
    ELSE Arange(0, kk)

\* a post window start that takes min_gap_post as given
PostStartNoClamp(kk, m, p) == Min(kk + p.min_gap_post, m - 1)

\* line 136
PostStart(kk, m, p) == Min(kk + Max(1, p.min_gap_post), m - 1)
\* line 137
PostEnd(kk, m, p) == Min(kk + p.post_window, m - 1)
\* a post search over the whole series
PostCandidatesWhole(kk, m, p) == Arange(0, m)

\* line 138
PostCandidates(kk, m, p) ==
    IF PostEnd(kk, m, p) >= PostStart(kk, m, p)
    THEN Arange(PostStart(kk, m, p), PostEnd(kk, m, p) + 1)
    ELSE Arange(kk, m)

\* x.loc[i, date_col]
DateAt(rows, i) == rows[i + 1].date

\* a length check that is off by one
TooShortOffByOne(m, ms) == m < 2 * ms

\* line 92: the series is too short for min_segment samples on each side
TooShort(m, ms) == m < 2 * ms + 1

\* a loop over range(min_segment, n)
RangeStopWhole(m, ms) == m

\* line 104: the stop of range(min_segment, n - min_segment)
RangeStop(m, ms) == m - ms

\* presentation calls made whatever the flag
ShownAlways(p, calls) == calls

\* lines 117, 145: if verbose: the st.subheader / st.write calls
Shown(p, calls) == IF p.verbose THEN calls ELSE <<>>

\* a comparison that lets an equal candidate replace the best
ImprovesOrTies(bick, best) == FLe(bick, best)

\* line 111: if bick < best_bic
Improves(bick, best) == FLt(bick, best)

\* a delta with the operands swapped
DeltaSwapped(best, single) == FSub(single, best)

\* line 114: delta_bic = best_bic - bic1
Delta(best, single) == FSub(best, single)

\* a threshold taken by its magnitude
ThresholdMagnitude(p) == Abs(p.bic_threshold)

\* lines 80, 115: the threshold the verdict compares with
ThresholdOf(p) == p.bic_threshold

\* a verdict with the comparison the wrong way round
VerdictReversed(delta, thr) == FLe(Fin(thr), delta)

\* line 115: has_break = delta_bic <= bic_threshold
Verdict(delta, thr) == FLe(delta, Fin(thr))

\* a no-break dict that carries zeroed regime means
NoBreakResultZeroed(delta) ==
    [has_break |-> FALSE, delta_bic |-> delta, break_date |-> None,
     pre_image_date |-> None, post_image_date |-> None,
     pre_mean |-> [sum |-> 0, cnt |-> 1], post_mean |-> [sum |-> 0, cnt |-> 1]]

\* lines 120-123: the dict returned when no break is found
NoBreakResult(delta) ==
    [has_break |-> FALSE, delta_bic |-> delta, break_date |-> None,
     pre_image_date |-> None, post_image_date |-> None]

\* lines 154-162: the dict returned for a break
BreakResult(delta, bd, pre_img, post_img, pre_mean, post_mean) ==
    [has_break |-> TRUE, delta_bic |-> delta, break_date |-> Some(bd),
     pre_image_date |-> Some(pre_img), post_image_date |-> Some(post_img),
     pre_mean |-> pre_mean, post_mean |-> post_mean]

\* the exceptions find_trend_break can end with
NeedRows == "ValueError: Need at least 2*min_segment+1 rows"
IndexOutOfBounds == "IndexError: index out of bounds for axis 0"
EmptyArgmin == "ValueError: attempt to get argmin of an empty sequence"

(***************************************************************************)
(* Inputs: the data frames and the keyword arguments of a call.            *)
(***************************************************************************)
Values == 0..MaxVal
Series == UNION {[1..l -> Values] : l \in 0..MaxLen}

\* three months of low values followed by four months of high ones
LowValues == 0..2
Plateau == <<9, 7, 11, 9>>
StepSeries == {s \o Plateau : s \in [1..3 -> LowValues]}

Reverse(s) == [i \in 1..Len(s) |-> s[Len(s) + 1 - i]]
Frame(ys) == [i \in 1..Len(ys) |-> Row(i, ys[i])]

\* the row order and the missing cells of a frame holding the samples ys
Shapes == {"asc", "desc", "novalue", "nodate"}
Shaped(ys, shape) ==
    CASE shape = "asc" -> Frame(ys)
      [] shape = "desc" -> Reverse(Frame(ys))
      [] shape = "novalue" -> <<RowNoValue(Len(ys) + 1)>> \o Frame(ys)
      [] shape = "nodate" -> Reverse(Frame(ys)) \o <<RowNoDate(MaxVal)>>

\* bic_threshold in fixed point
Threshold(c) == c * LnScale

Params(ms, thr, pw, qw, gap, vb) ==
    [min_segment |-> ms, bic_threshold |-> Threshold(thr), pre_window |-> pw,
     post_window |-> qw, min_gap_post |-> gap, verbose |-> vb]

\* the defaults of the signature
DefaultParams == Params(6, -10, 6, 12, 1, TRUE)

MinSegments == {1, 2, 3}
Thresholds == {-10, 0}
\* (pre_window, post_window, min_gap_post, verbose)
Windows == {<<1, 2, 1, TRUE>>, <<0, 2, 1, TRUE>>, <<2, 0, 1, TRUE>>,
            <<1, 2, 0, TRUE>>, <<1, 3, 2, TRUE>>, <<6, 12, 1, TRUE>>,
            <<6, 12, 1, FALSE>>}
SmallParams ==
    {Params(ms, thr, w[1], w[2], w[3], w[4]) :
        ms \in MinSegments, thr \in Thresholds, w \in Windows}
\* the same without the default windows, which exceed the short series
ShortParams == {p \in SmallParams : p.pre_window < 6}

\* the same with the first of the windows only: the frames that differ
\* from an ascending one in their row order or missing cells alone
PlainParams == {p \in ShortParams : p.pre_window = 1 /\ p.post_window = 2
                                        /\ p.min_gap_post = 1}

\* twelve months with a step after the sixth
StepValues == <<5, 5, 6, 5, 6, 5, 40, 42, 41, 43, 40, 42>>
StepParams == {[DefaultParams EXCEPT !.min_segment = ms] : ms \in {5, 6}}

\* thirteen months on an exact line a + b*t
Intercepts == {0, 2}
Slopes == {-1, 0, 3}
LinearSeries ==
    {[i \in 1..13 |-> a + b * (i - 1)] : a \in Intercepts, b \in Slopes}

\* six months, mirror-symmetric, whose splits at 2 and at 4 fit equally well
TieValues == <<0, 0, 1, 1, 0, 0>>
TieParams == {Params(1, thr, 1, 2, 1, TRUE) : thr \in Thresholds}

\* parameters outside their range: a negative window, a gap below 1, a
\* negative segment size
InvalidParams ==
    {Params(2, 0, -1, 2, 1, TRUE), Params(2, 0, 1, -1, 1, TRUE),
     Params(2, 0, 1, 2, 0, TRUE), Params(2, 0, 1, 2, -1, TRUE),
     Params(-1, 0, 1, 2, 1, TRUE)}

\* twenty-four months, twelve at 10 and twelve at 100, with small noise: one
\* month off by one, or every month off by one with alternating sign
Step24 == [i \in 1..24 |-> IF i <= 12 THEN 10 ELSE 100]
Noise == {-1, 0, 1}
NoisySteps ==
    {[Step24 EXCEPT ![j] = @ + e] : j \in 1..24, e \in Noise}
        \cup {[i \in 1..24 |-> Step24[i] + (IF i % 2 = 0 THEN e ELSE -e)] :
                  e \in Noise}

\* the other pages and the Earth Engine client are not running
UrbanIdle ==
    /\ uc_pc = "idle"
    /\ uc_i = 0
    /\ series = <<>>
    /\ attempts = <<>>
    /\ uc_df = <<>>

ClientIdle ==
    /\ ee_pc = "idle"
    /\ env = <<>>
    /\ ee_calls = <<>>
    /\ status = <<>>

ParserIdle ==
    /\ ps_pc = "idle"
    /\ raw = <<>>
    /\ files = <<>>
    /\ parsed = <<>>

CloudIdle ==
    /\ tl_pc = "idle"
    /\ max_cloud = 0
    /\ before_count = 0
    /\ after_count = 0
    /\ queries = 0

PeriodsIdle ==
    /\ bp_pc = "idle"
    /\ start_y = 0
    /\ end_y = 0
    /\ cur = 0
    /\ periods = <<>>
    /\ bp_err = <<>>

OthersIdle ==
    UrbanIdle /\ ClientIdle /\ ParserIdle /\ CloudIdle /\ PeriodsIdle

\* the page is not running: the detector is invoked on its own
PageIdle ==
    /\ page_pc = "idle"
    /\ shown = <<>>
    /\ trend = None
    /\ usual_date = None
    /\ page_err = None

\* the locals of an invocation that has not started
Fresh ==
    /\ pc = "clean"
    /\ x = <<>>
    /\ y = <<>>
    /\ n = 0
    /\ bic1 = NaN
    /\ best_bic = PInf
    /\ best_k = None
    /\ k = 0
    /\ delta_bic = NaN
    /\ has_break = FALSE
    /\ result = <<>>
    /\ err = None
    /\ out = <<>>
    /\ t = <<>>

Init ==
    /\ \/ \E ys \in Series, shape \in Shapes :
              /\ df = Shaped(ys, shape)
              /\ par \in (IF shape = "asc" THEN ShortParams ELSE PlainParams)
       \/ \E ys \in StepSeries, shape \in Shapes :
              /\ df = Shaped(ys, shape)
              /\ par \in SmallParams
       \/ /\ df = Frame(StepValues)
          /\ par \in StepParams
       \/ /\ \E ys \in NoisySteps \cup LinearSeries : df = Frame(ys)
          /\ par = DefaultParams
       \/ /\ \E ys \in StepSeries : df = Frame(ys)
          /\ par \in InvalidParams
       \/ /\ df = Frame(TieValues)
          /\ par \in TieParams
    /\ Fresh
    /\ rnd = {}
    /\ call = 1
    /\ prev = None
    /\ PageIdle
    /\ OthersIdle

\* the first invocation, on a smaller set of arguments, for the runs that
\* invoke the detector twice
PairSeries == {s \in Series : Len(s) >= 3} \cup StepSeries
PairParams ==
    {Params(ms, thr, 1, 2, 1, TRUE) : ms \in {1, 2}, thr \in Thresholds}

InitPair ==
    /\ \E ys \in PairSeries, shape \in Shapes : df = Shaped(ys, shape)
    /\ par \in PairParams
    /\ Fresh
    /\ rnd = {}
    /\ call = 1
    /\ prev = None
    /\ PageIdle
    /\ OthersIdle

(***************************************************************************)
(* find_trend_break, step by step.                                         *)
(***************************************************************************)
\* lines 86-93: clean and sort a copy, reject a series that is too short
Clean ==
    /\ pc = "clean"
    /\ x' = CleanFrame(df)
    /\ df' = FrameAfterCleaning(df)
    /\ y' = ValuesOf(x')
    /\ n' = Len(y')
    /\ IF TooShort(n', par.min_segment)
       THEN /\ pc' = "raised"
            /\ err' = Some(NeedRows)
       ELSE /\ pc' = "fit1"
            /\ err' = err
    /\ UNCHANGED <<par, bic1, best_bic, best_k, k, delta_bic, has_break,
                   result, out, t, rnd, call, prev>>
    /\ UNCHANGED <<pageVars, otherVars>>

\* lines 94-103: the single linear trend, and the start of the search
FitSingle ==
    /\ pc = "fit1"
    /\ t' = TimeAxis(x)
    /\ \E z \in ZeroChoices(rnd, t', y, -1) :
          /\ bic1' = Bic(LineSSE(t', y), n, 2, z)
          /\ rnd' = Remember(rnd, t', y, -1, LineSSE(t', y), z)
    /\ best_bic' = PInf
    /\ best_k' = None
    /\ k' = par.min_segment
    /\ pc' = "split"
    /\ UNCHANGED <<df, par, x, y, n, delta_bic, has_break, result, err, out,
                   call, prev>>
    /\ UNCHANGED <<pageVars, otherVars>>

\* lines 104-112: one pass of the loop over range(min_segment, n - min_segment)
FitSplit ==
    /\ pc = "split"
    /\ k < RangeStop(n, par.min_segment)
    /\ IF k >= n \/ k < -n
       THEN \* line 106: t[k] is out of bounds
            /\ pc' = "raised"
            /\ err' = Some(IndexOutOfBounds)
            /\ UNCHANGED <<best_bic, best_k, rnd, k>>
       ELSE /\ \E z \in ZeroChoices(rnd, t, y, k) :
                  LET bick == Bic(SplitSSE(t, y, k), n, 4, z)
                  IN  /\ IF Improves(bick, best_bic)
                         THEN /\ best_bic' = bick
                              /\ best_k' = Some(k)
                         ELSE UNCHANGED <<best_bic, best_k>>
                      /\ rnd' = Remember(rnd, t, y, k, SplitSSE(t, y, k), z)
            /\ k' = k + 1
            /\ UNCHANGED <<pc, err>>
    /\ UNCHANGED <<df, par, x, y, n, bic1, delta_bic, has_break, result, out,
                   t, call, prev>>
    /\ UNCHANGED <<pageVars, otherVars>>

\* lines 114-123: the verdict, and the result when no break is found
Decide ==
    /\ pc = "split"
    /\ k >= RangeStop(n, par.min_segment)
    /\ delta_bic' = Delta(best_bic, bic1)
    /\ has_break' = Verdict(delta_bic', ThresholdOf(par))
    /\ IF ~has_break'
       THEN /\ out' = out \o Shown(par, <<"subheader: no break">>)
            /\ result' = NoBreakResult(delta_bic')
            /\ pc' = "returned"
       ELSE /\ pc' = "pick"
            /\ UNCHANGED <<result, out>>
    /\ UNCHANGED <<df, par, x, y, n, bic1, best_bic, best_k, k, err, t, rnd,
                   call, prev>>
    /\ UNCHANGED <<pageVars, otherVars>>

\* lines 126-162: the regime means, the representative months, the result
Pick ==
    /\ pc = "pick"
    /\ LET kk == best_k[1]
           pre_mean == Mean(PreSeg(y, kk))
           post_mean == Mean(PostSeg(y, kk))
           pre_candidates == PreCandidates(kk, par)
           post_candidates == PostCandidates(kk, n, par)
       IN  IF pre_candidates = <<>> \/ post_candidates = <<>>
           THEN /\ pc' = "raised"
                /\ err' = Some(EmptyArgmin)
                /\ UNCHANGED <<result, out>>
           ELSE LET pre_idx == Closest(y, pre_candidates, pre_mean)
                    post_idx == Closest(y, post_candidates, post_mean)
                IN  /\ result' = BreakResult(delta_bic, DateAt(x, kk),
                                              DateAt(x, pre_idx),
                                              DateAt(x, post_idx),
                                              pre_mean, post_mean)
                    /\ out' = out \o Shown(par, <<"subheader: break",
                                                    "write: break at",
                                                    "write: pre and post image">>)
                    /\ pc' = "returned"
                    /\ err' = err
    /\ UNCHANGED <<df, par, x, y, n, bic1, best_bic, best_k, k, delta_bic,
                   has_break, t, rnd, call, prev>>
    /\ UNCHANGED <<pageVars, otherVars>>

Next == Clean \/ FitSingle \/ FitSplit \/ Decide \/ Pick

Spec == Init /\ [][Next]_vars

(***************************************************************************)
(* The page runs again on every interaction and invokes the detector       *)
(* again: on the same frame, on the same samples in another row order or   *)
(* with other strictly increasing timestamps, or with a higher threshold.  *)
(***************************************************************************)
Rotate(rows) == IF rows = <<>> THEN rows ELSE Tail(rows) \o <<Head(rows)>>

\* other timestamps in the same order
Stretch(d) == 2 * d + 1
Skew(d) == d * d + d
Spacings == {"stretch", "skew"}
NewStamp(how, d) == IF how = "stretch" THEN Stretch(d) ELSE Skew(d)
Respaced(rows, how) ==
    [i \in 1..Len(rows) |->
        IF rows[i].dna THEN rows[i]
        ELSE [rows[i] EXCEPT !.date = NewStamp(how, @)]]

HigherThresholds(p) ==
    {Threshold(c) : c \in {d \in Thresholds : Threshold(d) > p.bic_threshold}}

SecondCalls(rows, p) ==
    {[df |-> r, par |-> p] :
        r \in {rows, Reverse(rows), Rotate(rows)}
                 \cup {Respaced(rows, how) : how \in Spacings}}
        \cup {[df |-> rows, par |-> [p EXCEPT !.bic_threshold = c]] :
                  c \in HigherThresholds(p)}
        \cup {[df |-> rows, par |-> [p EXCEPT !.verbose = ~@]]}

Recall ==
    /\ pc \in {"returned", "raised"}
    /\ call = 1
    /\ \E c \in SecondCalls(df, par) :
          /\ df' = c.df
          /\ par' = c.par
    /\ prev' = Some([df |-> df, par |-> par, pc |-> pc, result |-> result,
                     err |-> err, best_k |-> best_k,
                     delta_bic |-> delta_bic, has_break |-> has_break])
    /\ call' = call + 1
    /\ pc' = "clean"
    /\ x' = <<>>
    /\ y' = <<>>
    /\ n' = 0
    /\ bic1' = NaN
    /\ best_bic' = PInf
    /\ best_k' = None
    /\ k' = 0
    /\ delta_bic' = NaN
    /\ has_break' = FALSE
    /\ result' = <<>>
    /\ err' = None
    /\ out' = <<>>
    /\ t' = <<>>
    /\ UNCHANGED rnd
    /\ UNCHANGED <<pageVars, otherVars>>

NextPair == Next \/ Recall

SpecPair == InitPair /\ [][NextPair]_vars

(***************************************************************************)
(* nightlights(): the page fetches the monthly series of the area (sorted  *)
(* by date, rows without a mean filtered out by region_ts), charts it or   *)
(* shows a notice, invokes find_trend_break with the default parameters    *)
(* and renders the map.  An exception that leaves find_trend_break or the  *)
(* page is not caught anywhere: the run of the page ends with it.          *)
(***************************************************************************)
RECURSIVE InsertAsc(_, _)
InsertAsc(v, s) ==
    IF s = <<>> THEN <<v>>
    ELSE IF v <= Head(s) THEN <<v>> \o s
    ELSE <<Head(s)>> \o InsertAsc(v, Tail(s))
RECURSIVE SortAsc(_)
SortAsc(s) == IF s = <<>> THEN <<>> ELSE InsertAsc(Head(s), SortAsc(Tail(s)))

\* Series.quantile(q / 5) with linear interpolation, times 5: the position
\* q*(m-1)/5 falls r fifths after the sorted value number f (from 0)
QuantileTimes5(vals, q) ==
    LET m == Len(vals)
        sorted == SortAsc(vals)
        f == (q * (m - 1)) \div 5
        r == (q * (m - 1)) % 5
    IN  (5 - r) * sorted[f + 1] + r * sorted[Min(f + 2, m)]

\* line 317: df[(df["mean_rad"] > p40) & (df["mean_rad"] < p60)]
UsualRows(rows) ==
    LET p40 == QuantileTimes5(ValuesOf(rows), 2)
        p60 == QuantileTimes5(ValuesOf(rows), 3)
        Between(r) == 5 * r.value > p40 /\ 5 * r.value < p60
    IN  SelectSeq(rows, Between)

OutOfBounds == "IndexError: single positional indexer is out-of-bounds"

\* the series region_ts returns: none or too few months, thirteen months
\* with a step, on a line, or scattered
ShortSeries == {<<>>, <<1, 2, 1>>, <<3, 1, 2, 1, 3, 2, 1, 3, 2, 1, 2, 3>>}
Levels == 0..2
StepPatterns ==
    {[i \in 1..13 |-> IF i <= j THEN a ELSE b] :
        j \in 1..13, a \in Levels, b \in Levels}
Scattered == [i \in 1..13 |-> (5 * i) % 13]
PageSeries ==
    ShortSeries \cup StepPatterns \cup LinearSeries \cup {Scattered}

InitPage ==
    /\ \E ys \in PageSeries : df = Frame(ys)
    /\ par = DefaultParams
    /\ pc = "idle"
    /\ x = <<>>
    /\ y = <<>>
    /\ n = 0
    /\ bic1 = NaN
    /\ best_bic = PInf
    /\ best_k = None
    /\ k = 0
    /\ delta_bic = NaN
    /\ has_break = FALSE
    /\ result = <<>>
    /\ err = None
    /\ out = <<>>
    /\ t = <<>>
    /\ rnd = {}
    /\ call = 1
    /\ prev = None
    /\ page_pc = "chart"
    /\ shown = <<>>
    /\ trend = None
    /\ usual_date = None
    /\ page_err = None
    /\ OthersIdle

\* lines 246-253: the chart or the notice, then the call of the detector
PageChart ==
    /\ page_pc = "chart"
    /\ shown' = IF df # <<>>
                THEN shown \o <<"line_chart", "download_button">>
                ELSE shown \o <<"info: No time series data returned">>
    /\ page_pc' = "detect"
    /\ pc' = "clean"
    /\ UNCHANGED <<df, par, x, y, n, bic1, best_bic, best_k, k, delta_bic,
                   has_break, result, err, out, t, rnd, call, prev>>
    /\ UNCHANGED <<trend, usual_date, page_err>>
    /\ UNCHANGED otherVars

\* lines 253-264: the detector returns or raises; the summary of a break
PageTrend ==
    /\ page_pc = "detect"
    /\ pc \in {"returned", "raised"}
    /\ IF pc = "raised"
       THEN /\ page_pc' = "crashed"
            /\ page_err' = err
            /\ UNCHANGED <<trend, shown>>
       ELSE /\ trend' = Some(result)
            /\ shown' = IF result.has_break
                        THEN Append(shown, "summary") ELSE shown
            /\ page_pc' = "map"
            /\ UNCHANGED page_err
    /\ UNCHANGED <<df, par, pc, x, y, n, bic1, best_bic, best_k, k,
                   delta_bic, has_break, result, err, out, t, rnd, call,
                   prev>>
    /\ UNCHANGED usual_date
    /\ UNCHANGED otherVars

\* lines 271-333: the split map of a break, or the usual month, then the
\* colorbar and the map itself
PageMap ==
    /\ page_pc = "map"
    /\ IF trend[1].has_break
       THEN /\ shown' = shown \o <<"split_map", "colorbar", "map">>
            /\ page_pc' = "done"
            /\ UNCHANGED <<usual_date, page_err>>
       ELSE IF UsualRows(df) = <<>>
       THEN /\ page_pc' = "crashed"
            /\ page_err' = Some(OutOfBounds)
            /\ UNCHANGED <<usual_date, shown>>
       ELSE /\ usual_date' = Some(UsualRows(df)[Len(UsualRows(df))].date)
            /\ shown' = shown \o <<"usual layer", "colorbar", "map">>
            /\ page_pc' = "done"
            /\ UNCHANGED page_err
    /\ UNCHANGED <<df, par, pc, x, y, n, bic1, best_bic, best_k, k,
                   delta_bic, has_break, result, err, out, t, rnd, call,
                   prev>>
    /\ UNCHANGED trend
    /\ UNCHANGED otherVars

NextPage == Next \/ PageChart \/ PageTrend \/ PageMap

SpecPage == InitPage /\ [][NextPage]_vars

(***************************************************************************)
(* Reference notions for the properties, read off the caller's frame df    *)
(* without the detector's own cleaning and sorting.                        *)
(***************************************************************************)
\* the rows of df without a missing cell
Complete == {i \in 1..Len(df) : ~df[i].dna /\ ~df[i].vna}
NSamples == Cardinality(Complete)

\* the position, from 0, of a timestamp in timestamp order
PosOfDate(d) == Cardinality({j \in Complete : df[j].date < d})
RowAt(r) == CHOOSE i \in Complete : PosOfDate(df[i].date) = r
ValueAt(r) == df[RowAt(r)].value
StampAt(r) == df[RowAt(r)].date

\* the sum of the values at positions lo .. hi-1
RECURSIVE RangeSum(_, _)
RangeSum(lo, hi) == IF lo >= hi THEN 0 ELSE ValueAt(lo) + RangeSum(lo + 1, hi)

Reported == pc = "returned" /\ result.has_break
KStar == best_k[1]
Candidates ==
    {j \in 0..(NSamples - 1) :
        par.min_segment <= j /\ j < NSamples - par.min_segment}

PreIdx == PosOfDate(result.pre_image_date[1])
PostIdx == PosOfDate(result.post_image_date[1])

\* distance of the sample at position r to the mean of [0, kstar), resp. of
\* [kstar, n), each times the size of its segment
DistPre(r) == Abs(ValueAt(r) * KStar - RangeSum(0, KStar))
DistPost(r) ==
    Abs(ValueAt(r) * (NSamples - KStar) - RangeSum(KStar, NSamples))

\* delta <= thr for a float delta and a finite thr
DeltaAtMost(d, thr) == d.c = "ninf" \/ (d.c = "fin" /\ d.v <= thr)

\* delta_bic is best_bic - bic1 in IEEE arithmetic
DeltaIsDifference ==
    CASE best_bic.c = "fin" /\ bic1.c = "fin" ->
             delta_bic = Fin(best_bic.v - bic1.v)
      [] best_bic.c = "ninf" /\ bic1.c = "fin" -> delta_bic.c = "ninf"
      [] best_bic.c = "fin" /\ bic1.c = "ninf" -> delta_bic.c = "pinf"
      [] best_bic.c = "ninf" /\ bic1.c = "ninf" -> delta_bic.c = "nan"
      [] OTHER -> FALSE

\* best_bic is the criterion of kstar, and no candidate has a smaller one
BestIsMinimum ==
    /\ best_k # None
    /\ KStar \in Candidates
    /\ LET s == SplitSSE(t, y, KStar)
       IN  IF s.num # 0 THEN best_bic = Bic(s, n, 4, "zero")
           ELSE best_bic \in {NInf, Bic(s, n, 4, "tiny")}
    /\ \A j \in Candidates :
           ~FLt(Bic(SplitSSE(t, y, j), n, 4, "tiny"), best_bic)

(***************************************************************************)
(* C1: once the verdict is taken, has_break is true if and only if         *)
(* delta_bic <= bic_threshold, where delta_bic is the reported delta,      *)
(* equal to the smallest criterion over the candidates minus the           *)
(* criterion of the single line.                                           *)
(***************************************************************************)
C1_VerdictIffDeltaAtMostThreshold ==
    pc \in {"pick", "returned"} =>
        /\ has_break <=> DeltaAtMost(delta_bic, par.bic_threshold)
        /\ DeltaIsDifference
        /\ BestIsMinimum
        /\ pc = "returned" =>
              /\ result.has_break = has_break
              /\ result.delta_bic = delta_bic

C1_Witness ==
    /\ Reported
    /\ delta_bic.c = "fin"
    /\ LineSSE(t, y).num # 0
    /\ SplitSSE(t, y, KStar).num # 0
    /\ Cardinality(Candidates) >= 2
    /\ \E j \in Candidates : FLt(best_bic, Bic(SplitSSE(t, y, j), n, 4, "zero"))

(***************************************************************************)
(* C2: n is the number of rows without a missing cell; with                *)
(* n < 2*min_segment + 1 the call ends with the insufficient-data error    *)
(* and no result, with n >= 2*min_segment + 1 it never raises that error.  *)
(***************************************************************************)
C2_LengthCheck ==
    pc # "clean" =>
        /\ n = NSamples
        /\ NSamples < 2 * par.min_segment + 1 =>
              /\ pc = "raised"
              /\ err = Some(NeedRows)
              /\ DOMAIN result = {}
        /\ NSamples >= 2 * par.min_segment + 1 => err # Some(NeedRows)

C2_Witness ==
    /\ pc = "raised"
    /\ Len(df) = 2 * par.min_segment + 1
    /\ NSamples = 2 * par.min_segment

(***************************************************************************)
(* C3: the twelve months of StepValues.                                    *)
(***************************************************************************)
IsStepCall(ms) ==
    /\ df = Frame(StepValues)
    /\ par = [DefaultParams EXCEPT !.min_segment = ms]

\* a break at index 6 with pre_mean about 5.33, post_mean about 41.3 and a
\* delta below -10
StepOutcome ==
    /\ Reported
    /\ best_k = Some(6)
    /\ 533 * result.pre_mean.cnt <= 100 * result.pre_mean.sum
    /\ 100 * result.pre_mean.sum < 534 * result.pre_mean.cnt
    /\ 413 * result.post_mean.cnt <= 10 * result.post_mean.sum
    /\ 10 * result.post_mean.sum < 414 * result.post_mean.cnt
    /\ result.delta_bic.c = "fin"
    /\ result.delta_bic.v < (-10) * LnScale

\* C3 as stated: with min_segment = 6 the call on StepValues returns the
\* break at index 6
C3_Original ==
    (IsStepCall(6) /\ pc \in {"returned", "raised"}) => StepOutcome

\* C3, amended: with min_segment = 6 the call on StepValues ends with the
\* insufficient-data error (12 < 13 rows); with min_segment = 5 it returns
\* the break at index 6 with pre_mean about 5.33, post_mean about 41.3 and
\* a delta below -10
C3_StepScenario ==
    /\ (IsStepCall(6) /\ pc # "clean") =>
          (pc = "raised" /\ err = Some(NeedRows) /\ n = 12)
    /\ (IsStepCall(5) /\ pc \in {"returned", "raised"}) => StepOutcome

C3_Witness == IsStepCall(5) /\ pc = "returned"

(***************************************************************************)
(* C4: every index the loop evaluates, and so the break index kstar,       *)
(* lies in [min_segment, n - min_segment): a reported break has at least   *)
(* min_segment samples before kstar and at least min_segment from kstar on.*)
(***************************************************************************)
C4_BreakIndexInRange ==
    /\ pc = "split" => (par.min_segment <= k /\ k <= n - par.min_segment)
    /\ best_k # None =>
          (par.min_segment <= KStar /\ KStar < n - par.min_segment)
    /\ Reported =>
          /\ best_k # None
          /\ Cardinality({r \in 0..(NSamples - 1) : r < KStar})
                 >= par.min_segment
          /\ Cardinality({r \in 0..(NSamples - 1) : r >= KStar})
                 >= par.min_segment

C4_Witness ==
    /\ Reported
    /\ KStar = n - par.min_segment - 1
    /\ KStar > par.min_segment

(***************************************************************************)
(* C5: for a reported break, pre_mean is the mean of the values at         *)
(* positions [0, kstar) in timestamp order, post_mean the mean of those    *)
(* at [kstar, n), and break_date the timestamp of the sample at position   *)
(* kstar.                                                                  *)
(***************************************************************************)
C5_MeansAndBreakDate ==
    Reported =>
        /\ result.pre_mean.cnt > 0
        /\ result.pre_mean.sum * KStar
               = RangeSum(0, KStar) * result.pre_mean.cnt
        /\ result.post_mean.cnt > 0
        /\ result.post_mean.sum * (NSamples - KStar)
               = RangeSum(KStar, NSamples) * result.post_mean.cnt
        /\ result.break_date = Some(StampAt(KStar))

C5_Witness ==
    /\ Reported
    /\ x # df
    /\ ValueAt(KStar) * KStar # RangeSum(0, KStar)
    /\ result.pre_mean.sum * result.post_mean.cnt
           # result.post_mean.sum * result.pre_mean.cnt

(***************************************************************************)
(* The windows of the representative search, as sets of positions.         *)
(***************************************************************************)
Positions == 0..(NSamples - 1)

PreWindow ==
    {r \in Positions :
        Max(0, KStar - par.pre_window - 1) <= r /\ r < KStar - 1}
PreSearched == IF PreWindow # {} THEN PreWindow ELSE 0..(KStar - 1)

\* the post window that starts at kstar + post_gap
PostWindowFrom(gap) ==
    {r \in Positions :
        /\ Min(KStar + gap, NSamples - 1) <= r
        /\ r <= Min(KStar + par.post_window, NSamples - 1)}
PostSearchedFrom(gap) ==
    IF PostWindowFrom(gap) # {} THEN PostWindowFrom(gap)
    ELSE KStar..(NSamples - 1)

\* a post_gap below 1 counts as 1
EffectiveGap == IF par.min_gap_post >= 1 THEN par.min_gap_post ELSE 1

(***************************************************************************)
(* C6: for a reported break the pre representative is a position of the    *)
(* window [max(0, kstar-pre_window-1), kstar-1) whose value is closest to  *)
(* pre_mean; the full range [0, kstar) is searched instead if and only if  *)
(* that window is empty.                                                   *)
(***************************************************************************)
C6_PreRepresentative ==
    Reported =>
        /\ PreIdx \in PreSearched
        /\ \A j \in PreSearched : DistPre(PreIdx) <= DistPre(j)
        /\ result.pre_image_date = Some(StampAt(PreIdx))

C6_Witness ==
    /\ Reported
    /\ PreWindow # {}
    /\ DistPre(KStar - 1) < DistPre(PreIdx)

C8_TiesToLowestIndex ==
    Reported =>
        /\ \A j \in PreSearched :
               DistPre(j) = DistPre(PreIdx) => PreIdx <= j
        /\ \A j \in PostSearchedFrom(EffectiveGap) :
               DistPost(j) = DistPost(PostIdx) => PostIdx <= j

C8_Witness ==
    /\ Reported
    /\ \E j \in PreSearched : j > PreIdx /\ DistPre(j) = DistPre(PreIdx)
    /\ \E j \in PostSearchedFrom(EffectiveGap) :
           j > PostIdx /\ DistPost(j) = DistPost(PostIdx)

(***************************************************************************)
(* C9: a break at the lowest admissible index kstar = min_segment.         *)
(***************************************************************************)
\* C9 as stated: the pre search falls back to the full range [0, kstar),
\* so the representative is a closest position of [0, kstar), and the call
\* raises no index error
C9_Original ==
    /\ (Reported /\ KStar = par.min_segment) =>
          /\ PreIdx \in 0..(KStar - 1)
          /\ \A j \in 0..(KStar - 1) : DistPre(PreIdx) <= DistPre(j)
    /\ (pc = "raised" /\ par.min_segment >= 1) => err = Some(NeedRows)

\* C9, amended: with kstar = min_segment the call raises no index error
\* and the pre representative lies in [0, kstar); the window is clamped to
\* [max(0, kstar-pre_window-1), kstar-1), and the full range [0, kstar),
\* with kstar-1, is searched only if that window is empty, which is when
\* kstar <= 1 or pre_window <= 0
C9_LowestBreakIndex ==
    /\ (Reported /\ KStar = par.min_segment) =>
          /\ PreIdx \in 0..(KStar - 1)
          /\ PreWindow = {} <=> (KStar <= 1 \/ par.pre_window <= 0)
          /\ PreIdx = KStar - 1 => PreWindow = {}
    /\ (pc = "raised" /\ par.min_segment >= 1) => err = Some(NeedRows)

C9_Witness ==
    /\ Reported
    /\ KStar = par.min_segment
    /\ PreWindow # {}
    /\ DistPre(KStar - 1) < DistPre(PreIdx)
    /\ \A j \in PreWindow : DistPre(KStar - 1) < DistPre(j)

(***************************************************************************)
(* C10: a result without a break has has_break = false, None for the break *)
(* date and both image dates, and no pre_mean or post_mean entry.          *)
(***************************************************************************)
C10_NoBreakResultHasNoRegimeFields ==
    (pc = "returned" /\ ~result.has_break) =>
        /\ DOMAIN result = {"has_break", "delta_bic", "break_date",
                            "pre_image_date", "post_image_date"}
        /\ result.break_date = None
        /\ result.pre_image_date = None
        /\ result.post_image_date = None

C10_Witness ==
    /\ pc = "returned"
    /\ ~result.has_break
    /\ result.delta_bic.c = "fin"
    /\ LineSSE(t, y).num # 0
    /\ SplitSSE(t, y, KStar).num # 0
    /\ Cardinality(Candidates) >= 2

(***************************************************************************)
(* C11: for twenty-four samples, the first twelve within the noise of 10   *)
(* and the last twelve within the noise of 100, and the default            *)
(* parameters, the call returns a break at an index in [10, 14] with       *)
(* post_mean - pre_mean > 50.                                              *)
(***************************************************************************)
IsNoisyStepCall ==
    /\ NSamples = 24
    /\ \A r \in 0..11 : Abs(ValueAt(r) - 10) <= 1
    /\ \A r \in 12..23 : Abs(ValueAt(r) - 100) <= 1
    /\ par = DefaultParams

C11_DetectsInjectedStep ==
    (IsNoisyStepCall /\ pc \in {"returned", "raised"}) =>
        /\ Reported
        /\ KStar \in 10..14
        /\ result.post_mean.sum * result.pre_mean.cnt
               - result.pre_mean.sum * result.post_mean.cnt
               > 50 * result.pre_mean.cnt * result.post_mean.cnt

C11_Witness ==
    /\ IsNoisyStepCall
    /\ pc = "returned"
    /\ \E r \in 0..11 : ValueAt(r) # 10
    /\ SplitSSE(t, y, KStar).num # 0
    /\ delta_bic.c = "fin"

(***************************************************************************)
(* C12: for an exactly linear series a + b*t that is long enough, and a    *)
(* negative threshold, the call returns has_break = false.                 *)
(***************************************************************************)
IsLinear ==
    \A r \in 0..(NSamples - 3) :
        ValueAt(r + 2) - ValueAt(r + 1) = ValueAt(r + 1) - ValueAt(r)

IsLinearCall ==
    /\ IsLinear
    /\ NSamples >= 2 * par.min_segment + 1
    /\ par.bic_threshold < 0

C12_LinearSeriesHasNoBreak ==
    (IsLinearCall /\ pc \in {"pick", "returned", "raised"}) =>
        (pc = "returned" /\ ~result.has_break)

(***************************************************************************)
(* C14: when the single fit or the fit of some candidate has a zero        *)
(* residual, the call does not fail on the logarithm and delta_bic is a    *)
(* finite number.                                                          *)
(***************************************************************************)
IsDegenerate ==
    \/ LineSSE(t, y).num = 0
    \/ \E c \in Candidates : SplitSSE(t, y, c).num = 0

C14_DegenerateFitFiniteDelta ==
    (pc \in {"pick", "returned"} /\ IsDegenerate) =>
        (err = None /\ delta_bic.c = "fin")

(***************************************************************************)
(* Two invocations.  Before is the invocation before the running one.      *)
(***************************************************************************)
Before == prev[1]
Finished == pc \in {"returned", "raised"}
SecondFinished == call = 2 /\ Finished

\* the parameters other than the threshold
OtherParams(p) == [p EXCEPT !.bic_threshold = 0]

(***************************************************************************)
(* C13: for the same series and the same other parameters, a break found   *)
(* with one threshold is found with every threshold at least as high, and  *)
(* delta_bic and the break index are the same with both thresholds.        *)
(***************************************************************************)
C13_MonotonicInThreshold ==
    (/\ SecondFinished
     /\ df = Before.df
     /\ OtherParams(par) = OtherParams(Before.par)
     /\ par.bic_threshold >= Before.par.bic_threshold
     /\ Before.has_break) =>
        /\ has_break
        /\ delta_bic = Before.delta_bic
        /\ best_k = Before.best_k

C13_Witness ==
    /\ SecondFinished
    /\ pc = "returned"
    /\ df = Before.df
    /\ OtherParams(par) = OtherParams(Before.par)
    /\ par.bic_threshold > Before.par.bic_threshold
    /\ Before.has_break
    /\ delta_bic.c = "fin"

(***************************************************************************)
(* C15: an invocation with the same series and the same parameters as the  *)
(* invocation before it ends the same way: the same result (has_break,     *)
(* delta_bic, break date, image dates, means) or the same error.           *)
(***************************************************************************)
SameArguments == df = Before.df /\ par = Before.par

RowsOf(rows) == {rows[i] : i \in 1..Len(rows)}
DistinctStamps(rows) ==
    \A i, j \in 1..Len(rows) :
        (i # j /\ ~rows[i].dna /\ ~rows[j].dna) => rows[i].date # rows[j].date

Reordered ==
    /\ par = Before.par
    /\ Len(df) = Len(Before.df)
    /\ RowsOf(df) = RowsOf(Before.df)
    /\ Cardinality(RowsOf(df)) = Len(df)
    /\ DistinctStamps(df)
    /\ df # Before.df

C16_RowOrderIrrelevant ==
    (SecondFinished /\ Reordered) =>
        /\ pc = Before.pc
        /\ result = Before.result
        /\ err = Before.err
        /\ Reported => /\ result.break_date = Some(StampAt(KStar))
                       /\ PreIdx < KStar
                       /\ KStar <= PostIdx

C16_Witness ==
    /\ SecondFinished
    /\ Reordered
    /\ Reported
    /\ \E i \in 1..(Len(df) - 1) : ~df[i].dna /\ ~df[i + 1].dna
                                      /\ df[i].date > df[i + 1].date
    /\ SplitSSE(t, y, KStar).num # 0

(***************************************************************************)
(* C17: an invocation whose series differs from the one before only in     *)
(* the timestamps, which keep their order, gives the same has_break,       *)
(* delta_bic, break index, representative indices, pre_mean and post_mean. *)
(***************************************************************************)
\* the position, from 0, of a timestamp among the complete rows of a frame
PosIn(rows, d) ==
    Cardinality({j \in 1..Len(rows) :
                    ~rows[j].dna /\ ~rows[j].vna /\ rows[j].date < d})

RespacedCall ==
    /\ par = Before.par
    /\ Len(df) = Len(Before.df)
    /\ \A i \in 1..Len(df) :
           /\ df[i].dna = Before.df[i].dna
           /\ df[i].vna = Before.df[i].vna
           /\ df[i].value = Before.df[i].value
    /\ \A i, j \in 1..Len(df) :
           (~df[i].dna /\ ~df[j].dna) =>
               (df[i].date < df[j].date
                    <=> Before.df[i].date < Before.df[j].date)
    /\ DistinctStamps(df)
    /\ \E i \in 1..Len(df) : df[i].date # Before.df[i].date

C17_SpacingIrrelevant ==
    (SecondFinished /\ RespacedCall) =>
        /\ pc = Before.pc
        /\ err = Before.err
        /\ has_break = Before.has_break
        /\ delta_bic = Before.delta_bic
        /\ best_k = Before.best_k
        /\ Reported =>
               /\ PosIn(df, result.break_date[1])
                      = PosIn(Before.df, Before.result.break_date[1])
               /\ PosIn(df, result.pre_image_date[1])
                      = PosIn(Before.df, Before.result.pre_image_date[1])
               /\ PosIn(df, result.post_image_date[1])
                      = PosIn(Before.df, Before.result.post_image_date[1])
               /\ result.pre_mean = Before.result.pre_mean
               /\ result.post_mean = Before.result.post_mean

C17_Witness ==
    /\ SecondFinished
    /\ RespacedCall
    /\ Reported
    /\ \E i \in 1..Len(df) : ~df[i].dna /\ df[i].date = Skew(Before.df[i].date)
                                /\ df[i].date # Stretch(Before.df[i].date)
    /\ LineSSE(t, y).num # 0
    /\ SplitSSE(t, y, KStar).num # 0

(***************************************************************************)
(* C18: no step of an invocation changes the series it was given, whether  *)
(* the invocation returns or raises.                                       *)
(***************************************************************************)
C18_SeriesNotModified == [][call' = call => df' = df]_vars

C18_Witness ==
    /\ Finished
    /\ x # <<>>
    /\ x # df
    /\ \E i \in 1..Len(df) : df[i].dna \/ df[i].vna
    /\ \E i \in 1..(Len(df) - 1) : df[i].date > df[i + 1].date

(***************************************************************************)
(* C19: an invocation with a parameter outside its range (gap below 1,     *)
(* negative segment size, negative window) raises an error and computes    *)
(* no result.                                                              *)
(***************************************************************************)
IsInvalid(p) ==
    \/ p.min_gap_post < 1
    \/ p.min_segment < 0
    \/ p.pre_window < 0
    \/ p.post_window < 0

C19_InvalidParameterRaises ==
    (Finished /\ IsInvalid(par)) => (pc = "raised" /\ result = <<>>)

(***************************************************************************)
(* C20: after the loop the best index is the lowest candidate with the     *)
(* minimal BIC: every earlier candidate has a strictly higher BIC, every   *)
(* later one a BIC at least as high.                                       *)
(***************************************************************************)
\* the BIC the loop computed for candidate j
RoundingAt(j) ==
    LET known == {e \in rnd : e.ts = t /\ e.ys = y /\ e.kk = j}
    IN  IF known = {} THEN "tiny" ELSE (CHOOSE e \in known : TRUE).z
BicAt(j) == Bic(SplitSSE(t, y, j), n, 4, RoundingAt(j))

\* the candidates of range(min_segment, n - min_segment)
Examined == par.min_segment..(NSamples - par.min_segment - 1)

C20_LowestIndexOnTies ==
    (pc \in {"pick", "returned"} /\ best_k # None) =>
        /\ KStar \in Examined
        /\ best_bic = BicAt(KStar)
        /\ \A j \in Examined :
               /\ j < KStar => FLt(best_bic, BicAt(j))
               /\ j > KStar => FLe(best_bic, BicAt(j))

C20_Witness ==
    /\ Reported
    /\ SplitSSE(t, y, KStar).num # 0
    /\ \E j \in Candidates : j > KStar /\ BicAt(j) = best_bic

(***************************************************************************)
(* C21, as stated: for distinct timestamps and min_segment >= 1, a         *)
(* reported break has both representatives at positions in [0, n), dates   *)
(* ordered pre_image_date < break_date <= post_image_date, and with        *)
(* min_gap_post = 1 the post image strictly after the break date.          *)
(***************************************************************************)
IsOrderedBreak ==
    /\ PreIdx \in Positions
    /\ PostIdx \in Positions
    /\ result.pre_image_date = Some(StampAt(PreIdx))
    /\ result.post_image_date = Some(StampAt(PostIdx))
    /\ result.pre_image_date[1] < result.break_date[1]
    /\ result.break_date[1] <= result.post_image_date[1]

C21_Original ==
    (Reported /\ DistinctStamps(df) /\ par.min_segment >= 1) =>
        /\ IsOrderedBreak
        /\ par.min_gap_post = 1 =>
               result.break_date[1] < result.post_image_date[1]

\* C21, amended: the post image is strictly after the break date when
\* min_gap_post = 1 and post_window >= 1; with post_window <= 0 the post
\* window is empty, the search falls back to [kstar, n) and the post image
\* can be the break month itself
C21_RepresentativesOrdered ==
    (Reported /\ DistinctStamps(df) /\ par.min_segment >= 1) =>
        /\ IsOrderedBreak
        /\ (par.min_gap_post = 1 /\ par.post_window >= 1) =>
               result.break_date[1] < result.post_image_date[1]

C21_Witness ==
    /\ Reported
    /\ DistinctStamps(df)
    /\ par.min_segment >= 1
    /\ par.min_gap_post = 1
    /\ par.post_window >= 1
    /\ PreIdx > 0
    /\ PostIdx > KStar + 1
    /\ SplitSSE(t, y, KStar).num # 0

(***************************************************************************)
(* C22: an invocation that differs from the one before only in the verbose *)
(* flag ends the same way, with the same result or the same error; a       *)
(* presentation call is made only once the verdict has been computed, and  *)
(* only with verbose = true.                                               *)
(***************************************************************************)
OnlyVerboseDiffers ==
    /\ df = Before.df
    /\ par.verbose # Before.par.verbose
    /\ [par EXCEPT !.verbose = TRUE] = [Before.par EXCEPT !.verbose = TRUE]

C22_VerboseOnlyPresentation ==
    /\ (SecondFinished /\ OnlyVerboseDiffers) =>
           /\ pc = Before.pc
           /\ result = Before.result
           /\ err = Before.err
    /\ out # <<>> =>
           /\ pc = "returned"
           /\ par.verbose
           /\ result.has_break = has_break

C22_Witness ==
    /\ SecondFinished
    /\ OnlyVerboseDiffers
    /\ ~par.verbose
    /\ Reported
    /\ out = <<>>
    /\ SplitSSE(t, y, KStar).num # 0

(***************************************************************************)
(* C23: whenever the detector reports no break, the page finds a month     *)
(* whose value lies strictly between the 40th and the 60th percentile and  *)
(* shows the latest such month as the usual layer.                         *)
(***************************************************************************)
\* the value number j, from 0, of the sorted values of the series
Rank(v) == Cardinality({i \in Complete : df[i].value < v})
RankUpTo(v) == Cardinality({i \in Complete : df[i].value <= v})
OrderStat(j) ==
    CHOOSE w \in {df[i].value : i \in Complete} :
        Rank(w) <= j /\ j < RankUpTo(w)

\* five times the percentile 20*q, interpolated linearly between the two
\* sorted values around position q*(n-1)/5
PercentileTimes5(q) ==
    LET pos == q * (NSamples - 1)
        r == pos % 5
    IN  (5 - r) * OrderStat(pos \div 5)
            + r * OrderStat(Min(pos \div 5 + 1, NSamples - 1))

IsUsual(v) == 5 * v > PercentileTimes5(2) /\ 5 * v < PercentileTimes5(3)

PageFinished == page_pc \in {"done", "crashed"}

C23_UsualMonthExists ==
    (PageFinished /\ trend # None /\ ~trend[1].has_break) =>
        /\ page_pc = "done"
        /\ usual_date # None
        /\ \E i \in Complete : /\ df[i].date = usual_date[1]
                               /\ IsUsual(df[i].value)
        /\ \A i \in Complete :
               IsUsual(df[i].value) => df[i].date <= usual_date[1]

(***************************************************************************)
(* C24: with no rows, or fewer than 13 usable months, the page shows the   *)
(* notice that no time series data were returned and reaches the map,      *)
(* with no unhandled error from the break detection.                       *)
(***************************************************************************)
C24_ShortSeriesLenient ==
    (PageFinished /\ NSamples < 13) =>
        /\ page_pc = "done"
        /\ page_err = None
        /\ \E i \in 1..Len(shown) :
               shown[i] = "info: No time series data returned"
        /\ \E i \in 1..Len(shown) : shown[i] = "map"

(***************************************************************************)
(* urban_change_with_stats (src/pages/1_UrbanChange.py), the loop of lines *)
(* 230-238 that queries the built-up area of every year.  builtup_km2 is   *)
(* a remote call: it returns a number, or 0.0 when the service has no      *)
(* value, or it raises.                                                    *)
(***************************************************************************)
\* line 211: all_years = list(range(1975, 2035, 5))
all_years == [i \in 1..12 |-> 1975 + 5 * (i - 1)]

\* line 220-226: what the service sums up for the i-th year, in square
\* metres, when it has a value
BuiltSurface(i) == (100 + 10 * i) * 1000000

\* what one call of builtup_km2 does: lines 226-229, or an exception
Outcomes == {"value", "none", "raise"}

\* lines 227-229: None becomes 0.0, a value becomes square kilometres
builtup_km2(i, o) == IF o = "none" THEN 0 ELSE BuiltSurface(i) \div 1000000

\* line 237
Entry(i, o) == [year |-> all_years[i], built_up_km2 |-> builtup_km2(i, o)]

\* the first exception ends the loop
AbortAtOnce == "aborted"
\* lines 234-236: except Exception: the call is made once more
AfterFirstRaise == "retry"

\* line 238: sort_values("year")
RECURSIVE InsertByYear(_, _)
InsertByYear(row, rows) ==
    IF rows = <<>> THEN <<row>>
    ELSE IF rows[Len(rows)].year <= row.year THEN Append(rows, row)
    ELSE Append(InsertByYear(row, SubSeq(rows, 1, Len(rows) - 1)),
                rows[Len(rows)])

RECURSIVE SortByYear(_)
SortByYear(rows) ==
    IF rows = <<>> THEN <<>>
    ELSE InsertByYear(rows[Len(rows)],
                      SortByYear(SubSeq(rows, 1, Len(rows) - 1)))

InitUrban ==
    /\ uc_pc = "loop"
    /\ uc_i = 1
    /\ series = <<>>
    /\ attempts = <<>>
    /\ uc_df = <<>>
    /\ df = <<>>
    /\ par = DefaultParams
    /\ pc = "idle"
    /\ x = <<>>
    /\ y = <<>>
    /\ n = 0
    /\ bic1 = NaN
    /\ best_bic = PInf
    /\ best_k = None
    /\ k = 0
    /\ delta_bic = NaN
    /\ has_break = FALSE
    /\ result = <<>>
    /\ err = None
    /\ out = <<>>
    /\ t = <<>>
    /\ rnd = {}
    /\ call = 0
    /\ prev = None
    /\ PageIdle
    /\ ClientIdle /\ ParserIdle /\ CloudIdle /\ PeriodsIdle

\* lines 231-233 and 237: the next year, and its first query
UrbanTry ==
    /\ uc_pc = "loop"
    /\ uc_i <= Len(all_years)
    /\ \E o \in Outcomes :
           /\ attempts' = <<o>>
           /\ IF o = "raise"
              THEN /\ uc_pc' = AfterFirstRaise
                   /\ UNCHANGED <<uc_i, series>>
              ELSE /\ series' = Append(series, Entry(uc_i, o))
                   /\ uc_i' = uc_i + 1
                   /\ UNCHANGED uc_pc
    /\ UNCHANGED uc_df
    /\ UNCHANGED <<detVars, pageVars, eeVars, psVars, tlVars, bpVars>>

\* lines 234-237: the second query of the year; its exception is not caught
UrbanRetry ==
    /\ uc_pc = "retry"
    /\ \E o \in Outcomes :
           /\ attempts' = Append(attempts, o)
           /\ IF o = "raise"
              THEN /\ uc_pc' = "aborted"
                   /\ UNCHANGED <<uc_i, series>>
              ELSE /\ series' = Append(series, Entry(uc_i, o))
                   /\ uc_i' = uc_i + 1
                   /\ uc_pc' = "loop"
    /\ UNCHANGED uc_df
    /\ UNCHANGED <<detVars, pageVars, eeVars, psVars, tlVars, bpVars>>

\* line 238: the frame of the series, sorted by year
UrbanFrame ==
    /\ uc_pc = "loop"
    /\ uc_i > Len(all_years)
    /\ uc_df' = SortByYear(series)
    /\ uc_pc' = "done"
    /\ UNCHANGED <<uc_i, series, attempts>>
    /\ UNCHANGED <<detVars, pageVars, eeVars, psVars, tlVars, bpVars>>

NextUrban == UrbanTry \/ UrbanRetry \/ UrbanFrame

SpecUrban == InitUrban /\ [][NextUrban]_vars

\* C25: every year is queried at most twice, the second time only after the
\* first query raised; the first exception is swallowed (the loop goes on to
\* the second query), the second one ends the loop without a frame; the
\* series holds one entry for each year done, in the ascending order of
\* all_years, and the frame is that series.
C25_RetryOnce ==
    /\ Len(attempts) <= 2
    /\ Len(attempts) = 2 => attempts[1] = "raise"
    /\ (uc_pc = "retry") = (attempts = <<"raise">>)
    /\ (uc_pc = "aborted") = (attempts = <<"raise", "raise">>)
    /\ uc_pc = "aborted" => uc_df = <<>>
    /\ Len(series) <= Len(all_years)
    /\ \A j \in 1..Len(series) : series[j].year = all_years[j]
    /\ \A i, j \in 1..Len(series) :
           i < j => series[i].year < series[j].year
    /\ Len(series) = (IF uc_pc = "done" THEN Len(all_years) ELSE uc_i - 1)
    /\ uc_pc = "done" => uc_df = series

\* the last year needed its second query, and the frame was built
C25_Witness ==
    /\ uc_pc = "done"
    /\ attempts = <<"raise", "value">>
    /\ Len(uc_df) = 12

(***************************************************************************)
(* Text.  A Python str is a sequence of one-character strings, so that     *)
(* strip, lower, startswith, replace, base64 and json.loads can be         *)
(* computed character by character.                                        *)
(***************************************************************************)
\* the printable ASCII characters, code 32 to 126 (the grave accent, code
\* 96, is spelled out)
Ascii == <<
    " ", "!", "\"", "#", "$", "%", "&", "'", "(", ")", "*", "+", ",",
    "-", ".", "/", "0", "1", "2", "3", "4", "5", "6", "7", "8", "9",
    ":", ";", "<", "=", ">", "?", "@", "A", "B", "C", "D", "E", "F",
    "G", "H", "I", "J", "K", "L", "M", "N", "O", "P", "Q", "R", "S",
    "T", "U", "V", "W", "X", "Y", "Z", "[", "\\", "]", "^", "_", "grave",
    "a", "b", "c", "d", "e", "f", "g", "h", "i", "j", "k", "l", "m",
    "n", "o", "p", "q", "r", "s", "t", "u", "v", "w", "x", "y", "z",
    "{", "|", "}", "~" >>

\* ord(c) of a character of the texts used here
Code(c) ==
    IF c = "\n" THEN 10
    ELSE IF c = "\r" THEN 13
    ELSE IF c = "\t" THEN 9
    ELSE 31 + (CHOOSE i \in 1..Len(Ascii) : Ascii[i] = c)

\* bytes.decode("utf-8", errors="strict") of one byte: the character, or
\* <<>> for a byte that is no ASCII character of the texts used here
Chr(b) ==
    IF b \in 32..126 THEN <<Ascii[b - 31]>>
    ELSE IF b = 10 THEN <<"\n">>
    ELSE IF b = 13 THEN <<"\r">>
    ELSE IF b = 9 THEN <<"\t">>
    ELSE <<>>

\* str.isspace of the characters used here
IsSpace(c) == c \in {" ", "\t", "\n", "\r"}

RECURSIVE LStrip(_)
LStrip(s) == IF s # <<>> /\ IsSpace(Head(s)) THEN LStrip(Tail(s)) ELSE s

RECURSIVE RStrip(_)
RStrip(s) ==
    IF s # <<>> /\ IsSpace(s[Len(s)])
    THEN RStrip(SubSeq(s, 1, Len(s) - 1)) ELSE s

\* str.strip()
Strip(s) == RStrip(LStrip(s))

\* str.startswith, str.endswith, the operator in, str.replace of characters
StartsWith(s, p) == Len(s) >= Len(p) /\ SubSeq(s, 1, Len(p)) = p
EndsWith(s, p) ==
    Len(s) >= Len(p) /\ SubSeq(s, Len(s) - Len(p) + 1, Len(s)) = p
Contains(s, p) ==
    \E i \in 1..(Len(s) - Len(p) + 1) : SubSeq(s, i, i + Len(p) - 1) = p
Replace(s, a, b) == [i \in 1..Len(s) |-> IF s[i] = a THEN b ELSE s[i]]

UpperCase == SubSeq(Ascii, 34, 59)
LowerCase == SubSeq(Ascii, 66, 91)

\* str.lower()
LowerChar(c) ==
    IF \E i \in 1..26 : UpperCase[i] = c
    THEN LowerCase[CHOOSE i \in 1..26 : UpperCase[i] = c]
    ELSE c
Lower(s) == [i \in 1..Len(s) |-> LowerChar(s[i])]

\* the standard base64 alphabet, value 0 to 63
B64Alphabet == <<
    "A", "B", "C", "D", "E", "F", "G", "H", "I", "J", "K", "L", "M",
    "N", "O", "P", "Q", "R", "S", "T", "U", "V", "W", "X", "Y", "Z",
    "a", "b", "c", "d", "e", "f", "g", "h", "i", "j", "k", "l", "m",
    "n", "o", "p", "q", "r", "s", "t", "u", "v", "w", "x", "y", "z",
    "0", "1", "2", "3", "4", "5", "6", "7", "8", "9", "+", "/" >>

B64Value(c) == (CHOOSE i \in 1..64 : B64Alphabet[i] = c) - 1
IsB64Char(c) == \E i \in 1..64 : B64Alphabet[i] = c

\* base64.b64encode of the bytes of an ASCII text
RECURSIVE B64Encode(_)
B64Encode(s) ==
    IF s = <<>> THEN <<>>
    ELSE LET b1 == Code(s[1])
             b2 == IF Len(s) >= 2 THEN Code(s[2]) ELSE 0
             b3 == IF Len(s) >= 3 THEN Code(s[3]) ELSE 0
             c1 == B64Alphabet[(b1 \div 4) + 1]
             c2 == B64Alphabet[((b1 % 4) * 16 + (b2 \div 16)) + 1]
             c3 == B64Alphabet[((b2 % 16) * 4 + (b3 \div 64)) + 1]
             c4 == B64Alphabet[(b3 % 64) + 1]
         IN  IF Len(s) = 1 THEN <<c1, c2, "=", "=">>
             ELSE IF Len(s) = 2 THEN <<c1, c2, c3, "=">>
             ELSE <<c1, c2, c3, c4>> \o B64Encode(SubSeq(s, 4, Len(s)))

\* base64.b64decode(s, validate=False): the characters outside the
\* alphabet are dropped, four of the rest make three bytes, '=' ends the
\* data; Some(bytes), or None for "Incorrect padding"
RECURSIVE B64Bytes(_)
B64Bytes(v) ==
    IF Len(v) = 0 THEN Some(<<>>)
    ELSE IF Len(v) = 1 THEN None
    ELSE LET b1 == v[1] * 4 + (v[2] \div 16)
             b2 == (v[2] % 16) * 16 + (IF Len(v) >= 3 THEN v[3] \div 4 ELSE 0)
             b3 == (IF Len(v) >= 3 THEN (v[3] % 4) * 64 ELSE 0)
                       + (IF Len(v) >= 4 THEN v[4] ELSE 0)
         IN  IF Len(v) = 2 THEN Some(<<b1>>)
             ELSE IF Len(v) = 3 THEN Some(<<b1, b2>>)
             ELSE LET rest == B64Bytes(SubSeq(v, 5, Len(v)))
                  IN  IF rest = None THEN None
                      ELSE Some(<<b1, b2, b3>> \o rest[1])

B64Decode(s) ==
    LET data  == SelectSeq(s, LAMBDA c : IsB64Char(c) \/ c = "=")
        cut   == IF \E i \in 1..Len(data) : data[i] = "="
                 THEN (CHOOSE i \in 1..Len(data) :
                          /\ data[i] = "="
                          /\ \A j \in 1..(i - 1) : data[j] # "=") - 1
                 ELSE Len(data)
        pads  == Len(data) - cut
        rem   == cut % 4
        vals  == [i \in 1..cut |-> B64Value(data[i])]
    IN  IF rem = 1 THEN None
        ELSE IF rem # 0 /\ pads < 4 - rem THEN None
        ELSE B64Bytes(vals)

\* bytes.decode("utf-8", errors="strict"): Some(text), or None for a
\* UnicodeDecodeError
Utf8Decode(bytes) ==
    IF \E i \in 1..Len(bytes) : Chr(bytes[i]) = <<>> THEN None
    ELSE Some([i \in 1..Len(bytes) |-> Chr(bytes[i])[1]])

(***************************************************************************)
(* json.loads, for the objects the inputs are made of: flat objects whose  *)
(* keys and values are strings without escapes.  Anything else in the text *)
(* is a JSONDecodeError, as a single quote or a missing brace is for       *)
(* json.loads.  A dict is a function from its keys to its values.          *)
(***************************************************************************)
QuoteChar == "\""

\* dict(pairs): a later pair replaces an earlier one with the same key
DictOf(pairs) ==
    [key \in {pairs[i][1] : i \in 1..Len(pairs)} |->
        pairs[CHOOSE i \in 1..Len(pairs) :
                  /\ pairs[i][1] = key
                  /\ \A j \in (i + 1)..Len(pairs) : pairs[j][1] # key][2]]

\* the text between two positions, without its white space
Between(s, lo, hi) ==
    SelectSeq(SubSeq(s, lo + 1, hi - 1), LAMBDA c : ~IsSpace(c))

\* the positions of the quotes: without escapes, every string runs from
\* one quote to the next
QuotesOf(s) ==
    SelectSeq([i \in 1..Len(s) |-> i], LAMBDA i : s[i] = QuoteChar)

\* the j-th string of the text
StringAt(s, quotes, j) == SubSeq(s, quotes[2 * j - 1] + 1, quotes[2 * j] - 1)

\* what json.loads requires of the text around the strings: "{" before
\* the first key, ":" after a key, "," after a value and "}" after the
\* last one, white space apart; no backslash or control character inside
WellFormed(s, quotes) ==
    LET m == Len(quotes) IN
    /\ m % 4 = 0
    /\ IF m = 0 THEN Between(s, 0, Len(s) + 1) = <<"{", "}">>
       ELSE /\ Between(s, 0, quotes[1]) = <<"{">>
            /\ Between(s, quotes[m], Len(s) + 1) = <<"}">>
            /\ \A j \in 1..(m \div 2) :
                   \A i \in (quotes[2 * j - 1] + 1)..(quotes[2 * j] - 1) :
                       s[i] \notin {"\\", "\n", "\r", "\t"}
            /\ \A j \in 1..((m \div 2) - 1) :
                   Between(s, quotes[2 * j], quotes[2 * j + 1])
                       = (IF j % 2 = 1 THEN <<":">> ELSE <<",">>)

\* json.loads(s): Some(dict), or None for a JSONDecodeError
JsonLoads(s) ==
    LET quotes == QuotesOf(s) IN
    IF WellFormed(s, quotes)
    THEN Some(DictOf([j \in 1..(Len(quotes) \div 4) |->
                         <<StringAt(s, quotes, 2 * j - 1),
                           StringAt(s, quotes, 2 * j)>>]))
    ELSE None

(***************************************************************************)
(* _parse_service_account_json (src/ee_init.py, lines 33-100).  A value of *)
(* st.secrets or os.environ is a record: Str(text), a number, or nothing.  *)
(***************************************************************************)
Str(text) == [type |-> "str", text |-> text]
Number(i) == [type |-> "int", int |-> i]
Unset == [type |-> "none"]

\* bool(v) of such a value
Truthy(v) ==
    IF v.type = "str" THEN v.text # <<>>
    ELSE IF v.type = "int" THEN v.int # 0
    ELSE FALSE

Returned(v) == [kind |-> "returned", value |-> v]
Raised(e, where) == [kind |-> "raised", error |-> e, line |-> where]

DotJson == <<".", "j", "s", "o", "n">>
\* os.path.sep
PathSep == <<"/">>
BeginPrivateKey == <<"B", "E", "G", "I", "N", " ", "P", "R", "I", "V", "A", "T", "E", " ", "K", "E", "Y">>
ClientEmail == <<"c", "l", "i", "e", "n", "t", "_", "e", "m", "a", "i", "l">>

\* lines 53, 65, 73: s.startswith("{") and s.endswith("}")
Braced(s) == StartsWith(s, <<"{">>) /\ EndsWith(s, <<"}">>)

\* line 46: the text is taken for the path of a file
LooksLikePath(s) ==
    Len(s) < 512 /\ (EndsWith(s, DotJson) \/ Contains(s, PathSep))

\* line 61-62: all(c in b64_chars for c in s)
AllB64(s) ==
    \A i \in 1..Len(s) : IsB64Char(s[i]) \/ s[i] \in {"=", "\n", "\r"}

\* lines 64-66: the decoded JSON, or None when any step raised or the
\* decoded text is not in braces (line 67-68: pass)
DecodedJson(s) ==
    LET bytes == B64Decode(s)
        text  == IF bytes = None THEN None ELSE Utf8Decode(bytes[1])
    IN  IF text = None THEN None
        ELSE IF Braced(Strip(text[1])) THEN JsonLoads(Strip(text[1]))
        ELSE None

\* line 73
LooksLikePyDict(s) ==
    /\ Braced(s)
    /\ Contains(s, <<"'", ":">>) \/ Contains(s, <<"'", ":", " ">>)
    /\ ~Contains(s, <<QuoteChar>>)

\* lines 52-100, on the text s of the argument or of the file
ParseText(s) ==
    IF Braced(s)
    THEN IF JsonLoads(s) # None THEN Returned(JsonLoads(s)[1])
         ELSE Raised("ValueError", 57)
    ELSE IF AllB64(s) /\ DecodedJson(s) # None
    THEN Returned(DecodedJson(s)[1])
    ELSE IF LooksLikePyDict(s)
    THEN IF JsonLoads(Replace(s, "'", QuoteChar)) # None
         THEN Returned(JsonLoads(Replace(s, "'", QuoteChar))[1])
         ELSE Raised("ValueError", 79)
    ELSE IF Contains(s, BeginPrivateKey) /\ ~Contains(s, ClientEmail)
    THEN Raised("ValueError", 86)
    ELSE Raised("ValueError", 92)

\* lines 40-50, then ParseText
parse_service_account_json(v, fs) ==
    IF ~Truthy(v) \/ v.type # "str" THEN Raised("ValueError", 41)
    ELSE LET s == Strip(v.text) IN
         IF LooksLikePath(s)
         THEN IF s \notin DOMAIN fs THEN Raised("FileNotFoundError", 48)
              ELSE ParseText(Strip(fs[s]))
         ELSE ParseText(s)

\* the documents of the inputs: one or two pairs of a key and a value
DocKeys == <<<<"t", "y", "p", "e">>, <<"i", "d">>>>
DocValues == {<<"s", "a">>, <<"v">>, <<>>}
Documents ==
    {<<<<DocKeys[i], v>>>> : i \in 1..2, v \in DocValues}
        \cup {<<<<DocKeys[1], v>>, <<DocKeys[2], w>>>> :
                  v \in DocValues, w \in DocValues}

\* the four documented forms of a document, written out
RECURSIVE Joined(_, _, _, _)
Joined(pairs, quote, colon, comma) ==
    IF pairs = <<>> THEN <<>>
    ELSE <<quote>> \o pairs[1][1] \o <<quote>> \o colon
             \o <<quote>> \o pairs[1][2] \o <<quote>>
             \o (IF Len(pairs) > 1 THEN comma ELSE <<>>)
             \o Joined(Tail(pairs), quote, colon, comma)

\* json.dumps(d), with the default or the compact separators
ToJson(pairs, colon, comma) ==
    <<"{">> \o Joined(pairs, QuoteChar, colon, comma) \o <<"}">>
\* repr(d) of a Python dict of strings
ToPyDict(pairs) ==
    <<"{">> \o Joined(pairs, "'", <<":", " ">>, <<",", " ">>) \o <<"}">>

KeyPath == <<"/", "e", "t", "c", "/", "s", "a", ".", "j", "s", "o", "n">>
KeyFile == <<"s", "a", ".", "j", "s", "o", "n">>
MissingPath == <<"/", "m", "i", "s", "s", "i", "n", "g", ".", "j", "s", "o", "n">>

Forms == {"json", "json_spaced", "json_padded", "base64", "base64_lines",
          "path", "path_rel", "pydict"}

NoFiles == <<>>
OneFile(path, text) == [q \in {path} |-> text]

\* the argument and the files of a document in a form
InputOf(d, form) ==
    LET compact == ToJson(d, <<":">>, <<",">>)
        b64     == B64Encode(compact)
    IN  IF form = "json" THEN [raw |-> Str(compact), files |-> NoFiles]
        ELSE IF form = "json_spaced"
        THEN [raw |-> Str(ToJson(d, <<":", " ">>, <<",", " ">>)),
              files |-> NoFiles]
        ELSE IF form = "json_padded"
        THEN [raw |-> Str(<<"\n", " ">> \o compact \o <<"\n">>),
              files |-> NoFiles]
        ELSE IF form = "base64" THEN [raw |-> Str(b64), files |-> NoFiles]
        ELSE IF form = "base64_lines"
        THEN [raw |-> Str(SubSeq(b64, 1, 8) \o <<"\n">>
                              \o SubSeq(b64, 9, Len(b64)) \o <<"\n">>),
              files |-> NoFiles]
        ELSE IF form = "path"
        THEN [raw |-> Str(KeyPath),
              files |-> OneFile(KeyPath, compact \o <<"\n">>)]
        ELSE IF form = "path_rel"
        THEN [raw |-> Str(KeyFile),
              files |-> OneFile(KeyFile, ToJson(d, <<":", " ">>, <<",", " ">>))]
        ELSE [raw |-> Str(ToPyDict(d)), files |-> NoFiles]

\* arguments that are in none of the forms
OtherInputs ==
    {[raw |-> v, files |-> NoFiles] :
        v \in {Unset, Str(<<>>), Number(12345), Str(<<" ", " ">>),
               Str(<<"Q", "U", "J", "D">>),
               Str(MissingPath),
               Str(<<"-", "-", "-", "-", "-", "B", "E", "G", "I", "N", " ", "P", "R", "I", "V", "A", "T", "E", " ", "K", "E", "Y", "-", "-", "-", "-", "-">>),
               Str(<<"{", "\"", "i", "d", "\"", ":", "}">>),
               Str(<<"h", "e", "l", "l", "o">>)}}

InitParse ==
    /\ \E inp \in {InputOf(d, form) : d \in Documents, form \in Forms}
                      \cup OtherInputs :
           /\ raw = inp.raw
           /\ files = inp.files
    /\ ps_pc = "call"
    /\ parsed = <<>>
    /\ df = <<>>
    /\ par = DefaultParams
    /\ pc = "idle"
    /\ x = <<>>
    /\ y = <<>>
    /\ n = 0
    /\ bic1 = NaN
    /\ best_bic = PInf
    /\ best_k = None
    /\ k = 0
    /\ delta_bic = NaN
    /\ has_break = FALSE
    /\ result = <<>>
    /\ err = None
    /\ out = <<>>
    /\ t = <<>>
    /\ rnd = {}
    /\ call = 0
    /\ prev = None
    /\ PageIdle
    /\ UrbanIdle /\ ClientIdle /\ CloudIdle /\ PeriodsIdle

\* the call: it returns the dict or raises
ParseCall ==
    /\ ps_pc = "call"
    /\ parsed' = parse_service_account_json(raw, files)
    /\ ps_pc' = parsed'.kind
    /\ UNCHANGED <<raw, files>>
    /\ UNCHANGED <<detVars, pageVars, ucVars, eeVars, tlVars, bpVars>>

NextParse == ParseCall

SpecParse == InitParse /\ [][NextParse]_vars

\* the argument is document d in one of the given forms
IsForm(d, forms) ==
    \E form \in forms : /\ raw = InputOf(d, form).raw
                        /\ files = InputOf(d, form).files

\* C28: a call on a document in any of the four documented forms (JSON
\* text, base64 of it, the path of a file holding it, a Python dict string
\* with single quotes) returns the dict of the document.
C28_FourFormsAccepted ==
    \A d \in Documents :
        (ps_pc # "call" /\ IsForm(d, Forms)) => parsed = Returned(DictOf(d))

(***************************************************************************)
(* ee_client_init (src/ee_init.py, lines 123-188).  env holds the two      *)
(* layers _load_from_secrets_or_env reads, whether geemap could be         *)
(* imported (lines 10-13) and the files.  The calls into Earth Engine,     *)
(* google-auth and geemap succeed or raise as the outside decides.         *)
(***************************************************************************)
\* lines 24-31: st.secrets first, then os.environ
Load(e, name) ==
    IF name \in DOMAIN e.secrets THEN e.secrets[name]
    ELSE IF name \in DOMAIN e.environ THEN e.environ[name]
    ELSE Unset

\* str(i) of a natural number
RECURSIVE Decimal(_)
Decimal(i) ==
    IF i < 10 THEN <<Ascii[17 + i]>>
    ELSE Append(Decimal(i \div 10), Ascii[17 + (i % 10)])

\* line 121: str(val)
StrOf(v) == IF v.type = "str" THEN v.text ELSE Decimal(v.int)

\* line 121: the accepted spellings
AllowWords == {<<"1">>, <<"t", "r", "u", "e">>, <<"y", "e", "s">>, <<"o", "n">>}

\* lines 119-121: str(val).strip().lower() in ("1", "true", "yes", "on")
Allowed(v) == v.type # "none" /\ Lower(Strip(StrOf(v))) \in AllowWords

\* lines 110-114: the fields a service-account dict must have
RequiredFields ==
    {<<"t", "y", "p", "e">>,
     <<"p", "r", "o", "j", "e", "c", "t", "_", "i", "d">>,
     <<"p", "r", "i", "v", "a", "t", "e", "_", "k", "e", "y">>,
     <<"c", "l", "i", "e", "n", "t", "_", "e", "m", "a", "i", "l">>,
     <<"t", "o", "k", "e", "n", "_", "u", "r", "i">>}
ServiceAccount == <<"s", "e", "r", "v", "i", "c", "e", "_", "a", "c", "c", "o", "u", "n", "t">>

\* lines 110-114 of _build_credentials: the dict passes the checks
Complete_(d) ==
    /\ \A f \in RequiredFields : f \in DOMAIN d /\ d[f] # <<>>
    /\ d[<<"t", "y", "p", "e">>] = ServiceAccount

\* lines 20-22: _preview(s) needs a str (or a falsy value)
PreviewWorks(v) == v.type = "str" \/ ~Truthy(v)

\* a complete service-account document, and one without its private key
GoodDoc ==
    << <<<<"t", "y", "p", "e">>, ServiceAccount>>,
       <<<<"p", "r", "o", "j", "e", "c", "t", "_", "i", "d">>, <<"p">>>>,
       <<<<"p", "r", "i", "v", "a", "t", "e", "_", "k", "e", "y">>, <<"k">>>>,
       <<<<"c", "l", "i", "e", "n", "t", "_", "e", "m", "a", "i", "l">>, <<"e">>>>,
       <<<<"t", "o", "k", "e", "n", "_", "u", "r", "i">>, <<"u">>>> >>
PartDoc == SubSeq(GoodDoc, 1, 2)

ClientKeys ==
    {Unset, Str(<<>>), Number(12345),
     Str(ToJson(GoodDoc, <<":", " ">>, <<",", " ">>)),
     Str(B64Encode(ToJson(GoodDoc, <<":">>, <<",">>))),
     Str(ToJson(PartDoc, <<":">>, <<",">>)),
     Str(ToPyDict(GoodDoc))}

AllowValues ==
    {Unset, Number(1), Number(0), Str(<<>>),
     Str(<<"1">>),
     Str(<<"t", "r", "u", "e">>),
     Str(<<"y", "e", "s">>),
     Str(<<"o", "n">>),
     Str(<<"T", "R", "U", "E">>),
     Str(<<"Y", "e", "s">>),
     Str(<<" ", "o", "n", "\n">>),
     Str(<<"0">>),
     Str(<<"f", "a", "l", "s", "e">>),
     Str(<<"n", "o">>),
     Str(<<"2">>),
     Str(<<"e", "n", "a", "b", "l", "e", "d">>),
     Str(<<"o", "f", "f">>)}

Projects == {Unset, Str(<<"e", "e", "-", "p">>)}

\* the settings that are set, as one layer
Layer(key, project, allow) ==
    [name \in {nm \in {"EE_PRIVATE_KEY", "EE_PROJECT",
                       "ALLOW_GEEMAP_FALLBACK"} :
                  (CASE nm = "EE_PRIVATE_KEY" -> key
                     [] nm = "EE_PROJECT" -> project
                     [] OTHER -> allow).type # "none"} |->
        CASE name = "EE_PRIVATE_KEY" -> key
          [] name = "EE_PROJECT" -> project
          [] OTHER -> allow]

NoLayer == Layer(Unset, Unset, Unset)

\* os.environ holds strings only
Environments ==
    {[secrets |-> Layer(key, project, allow), environ |-> NoLayer,
      geemap |-> g, files |-> NoFiles] :
        key \in ClientKeys, project \in Projects, allow \in AllowValues,
        g \in BOOLEAN}
    \cup
    {[secrets |-> Layer(Unset, Unset, over),
      environ |-> Layer(key, Unset, allow),
      geemap |-> TRUE, files |-> NoFiles] :
        key \in {kk \in ClientKeys : kk.type # "int"},
        allow \in {a \in AllowValues : a.type = "str"},
        over \in {Unset, Str(<<"0">>)}}

InitClient ==
    /\ env \in Environments
    /\ ee_pc = "test"
    /\ ee_calls = <<>>
    /\ status = <<>>
    /\ df = <<>>
    /\ par = DefaultParams
    /\ pc = "idle"
    /\ x = <<>>
    /\ y = <<>>
    /\ n = 0
    /\ bic1 = NaN
    /\ best_bic = PInf
    /\ best_k = None
    /\ k = 0
    /\ delta_bic = NaN
    /\ has_break = FALSE
    /\ result = <<>>
    /\ err = None
    /\ out = <<>>
    /\ t = <<>>
    /\ rnd = {}
    /\ call = 0
    /\ prev = None
    /\ PageIdle
    /\ UrbanIdle /\ ParserIdle /\ CloudIdle /\ PeriodsIdle

raw_key == Load(env, "EE_PRIVATE_KEY")
ee_project == Load(env, "EE_PROJECT")

\* lines 127-131: is the client initialised already
ClientTest ==
    /\ ee_pc = "test"
    /\ \E ok \in BOOLEAN :
           IF ok
           THEN /\ ee_calls' = Append(ee_calls, "getInfo: ok")
                /\ status' = <<"ok:", "already_initialized">>
                /\ ee_pc' = "returned"
           ELSE /\ ee_calls' = Append(ee_calls, "getInfo: raised")
                /\ ee_pc' = "load"
                /\ UNCHANGED status
    /\ UNCHANGED env
    /\ UNCHANGED <<detVars, pageVars, ucVars, psVars, tlVars, bpVars>>

\* lines 134-140: the settings are read
ClientLoad ==
    /\ ee_pc = "load"
    /\ ee_calls' = ee_calls \o <<"read EE_PRIVATE_KEY", "read EE_PROJECT",
                                 "read EE_SERVICE_ACCOUNT">>
    /\ ee_pc' = IF Truthy(raw_key) THEN "parse" ELSE "allowed"
    /\ UNCHANGED <<env, status>>
    /\ UNCHANGED <<detVars, pageVars, ucVars, psVars, tlVars, bpVars>>

\* lines 142-143: the key is parsed and the credentials are built;
\* google-auth may be missing or reject the key
ClientParse ==
    /\ ee_pc = "parse"
    /\ LET got == parse_service_account_json(raw_key, env.files) IN
       \E ok \in BOOLEAN :
           IF got.kind = "returned" /\ Complete_(got.value) /\ ok
           THEN /\ ee_calls' = Append(ee_calls, "credentials")
                /\ ee_pc' = "initialize"
           ELSE /\ ee_calls' = Append(ee_calls, "except")
                /\ ee_pc' = "report"
    /\ UNCHANGED <<env, status>>
    /\ UNCHANGED <<detVars, pageVars, ucVars, psVars, tlVars, bpVars>>

\* lines 144-147
ClientInitialize ==
    /\ ee_pc = "initialize"
    /\ \E ok \in BOOLEAN :
           IF ok
           THEN /\ ee_calls' = Append(ee_calls, "ee.Initialize")
                /\ ee_pc' = "verify"
           ELSE /\ ee_calls' = ee_calls \o <<"ee.Initialize", "except">>
                /\ ee_pc' = "report"
    /\ UNCHANGED <<env, status>>
    /\ UNCHANGED <<detVars, pageVars, ucVars, psVars, tlVars, bpVars>>

\* lines 149-150
ClientVerify ==
    /\ ee_pc = "verify"
    /\ \E ok \in BOOLEAN :
           IF ok
           THEN /\ ee_calls' = Append(ee_calls, "getInfo: ok")
                /\ status' = IF Truthy(ee_project)
                             THEN <<"ok:", "service_account_json",
                                    "_with_project">>
                             ELSE <<"ok:", "service_account_json">>
                /\ ee_pc' = "returned"
           ELSE /\ ee_calls' = ee_calls \o <<"getInfo: raised", "except">>
                /\ ee_pc' = "report"
                /\ UNCHANGED status
    /\ UNCHANGED env
    /\ UNCHANGED <<detVars, pageVars, ucVars, psVars, tlVars, bpVars>>

\* lines 151-162: the failure is reported; _preview(raw_key) is evaluated
\* for the message
ClientReport ==
    /\ ee_pc = "report"
    /\ IF PreviewWorks(raw_key)
       THEN /\ ee_calls' = ee_calls \o <<"st.error", "st.exception">>
            /\ ee_pc' = "allowed"
       ELSE /\ ee_calls' = Append(ee_calls, "AttributeError")
            /\ ee_pc' = "raised"
    /\ UNCHANGED <<env, status>>
    /\ UNCHANGED <<detVars, pageVars, ucVars, psVars, tlVars, bpVars>>

\* line 165 and lines 117-121
ClientAllowed ==
    /\ ee_pc = "allowed"
    /\ ee_calls' = Append(ee_calls, "read ALLOW_GEEMAP_FALLBACK")
    /\ ee_pc' = IF Allowed(Load(env, "ALLOW_GEEMAP_FALLBACK"))
                THEN "geemap" ELSE "stop"
    /\ UNCHANGED <<env, status>>
    /\ UNCHANGED <<detVars, pageVars, ucVars, psVars, tlVars, bpVars>>

\* lines 166-178
ClientGeemap ==
    /\ ee_pc = "geemap"
    /\ \E init_ok \in BOOLEAN, test_ok \in BOOLEAN :
           IF ~env.geemap
           THEN /\ ee_calls' = ee_calls \o <<"st.error", "st.exception">>
                /\ ee_pc' = "stop"
                /\ UNCHANGED status
           ELSE IF ~init_ok
           THEN /\ ee_calls' = ee_calls \o <<"read EARTHENGINE_TOKEN",
                                   "geemap.ee_initialize",
                                   "st.error", "st.exception">>
                /\ ee_pc' = "stop"
                /\ UNCHANGED status
           ELSE IF ~test_ok
           THEN /\ ee_calls' = ee_calls \o <<"read EARTHENGINE_TOKEN",
                                   "geemap.ee_initialize", "getInfo: raised",
                                   "st.error", "st.exception">>
                /\ ee_pc' = "stop"
                /\ UNCHANGED status
           ELSE /\ ee_calls' = ee_calls \o <<"read EARTHENGINE_TOKEN",
                                   "geemap.ee_initialize", "getInfo: ok">>
                /\ status' = <<"ok:", "geemap_token">>
                /\ ee_pc' = "returned"
    /\ UNCHANGED env
    /\ UNCHANGED <<detVars, pageVars, ucVars, psVars, tlVars, bpVars>>

\* lines 180-188
ClientStop ==
    /\ ee_pc = "stop"
    /\ ee_calls' = ee_calls \o <<"st.error", "st.stop">>
    /\ ee_pc' = "stopped"
    /\ UNCHANGED <<env, status>>
    /\ UNCHANGED <<detVars, pageVars, ucVars, psVars, tlVars, bpVars>>

NextClient ==
    \/ ClientTest \/ ClientLoad \/ ClientParse \/ ClientInitialize
    \/ ClientVerify \/ ClientReport \/ ClientAllowed \/ ClientGeemap
    \/ ClientStop

SpecClient == InitClient /\ [][NextClient]_vars

\* the call has been made in this invocation
Called(what) == \E i \in 1..Len(ee_calls) : ee_calls[i] = what

\* two texts that differ in the case of their letters at most
SameWord(a, b) ==
    /\ Len(a) = Len(b)
    /\ \A i \in 1..Len(a) :
           \/ a[i] = b[i]
           \/ /\ Code(a[i]) \in 65..90
              /\ Code(b[i]) = Code(a[i]) + 32

\* ALLOW_GEEMAP_FALLBACK is set to 1, true, yes or on, in any case and
\* with white space around it or not
FallbackWanted ==
    LET v == Load(env, "ALLOW_GEEMAP_FALLBACK") IN
    /\ v.type # "none"
    /\ \E w \in AllowWords :
           SameWord(SelectSeq(StrOf(v), LAMBDA c : ~IsSpace(c)), w)

ClientFinished == ee_pc \in {"returned", "stopped", "raised"}

\* C26: geemap.ee_initialize is called only when ALLOW_GEEMAP_FALLBACK is
\* one of 1 / true / yes / on and the service-account path has not
\* returned; and an invocation whose service-account initialisation failed
\* goes on to read ALLOW_GEEMAP_FALLBACK instead of stopping at once.
C26_FallbackOnlyWhenAllowed ==
    /\ Called("geemap.ee_initialize") =>
           /\ FallbackWanted
           /\ status \in {<<>>, <<"ok:", "geemap_token">>}
    /\ (ClientFinished /\ Called("except")) =>
           Called("read ALLOW_GEEMAP_FALLBACK")

\* C27: the function returns only with a status that starts with "ok:" and
\* whose last call was a successful test call; every other invocation ends
\* in st.stop(); an invocation whose first test call succeeds reads no
\* setting and initialises nothing.
C27_ReturnsOnlyVerified ==
    /\ ee_pc # "raised"
    /\ ee_pc = "returned" =>
           /\ status # <<>> /\ status[1] = "ok:"
           /\ ee_calls[Len(ee_calls)] = "getInfo: ok"
    /\ ee_pc # "returned" => status = <<>>
    /\ ee_pc = "stopped" => ee_calls[Len(ee_calls)] = "st.stop"
    /\ (ee_calls # <<>> /\ ee_calls[1] = "getInfo: ok") =>
           /\ ee_calls = <<"getInfo: ok">>
           /\ status = <<"ok:", "already_initialized">>

(***************************************************************************)
(* The cloud-cover loop of the timelapse page (src/pages/7_LS_Timelapse.py *)
(* lines 218-231): the scenes are counted under the current max_cloud and  *)
(* the limit is tightened until too few scenes are left.  The counts are   *)
(* whatever the service returns.                                           *)
(***************************************************************************)
\* the largest scene count the service returns in the model
MaxScenes == MaxLen + 1
\* the calls of getInfo the model follows
MaxQueries == MaxLen + 4

\* line 223 and the first test of line 227:
\* 100.0 * after_count / max(1, before_count) < 40.0
TooFewRetained(after, before) == 100 * after < 40 * Max(1, before)

\* the limit is lowered to 10 at most
TightenTo10(mc) == Max(10, mc - 10)
\* line 229: max_cloud = max(5, max_cloud - 10)
Tighten(mc) == Max(5, mc - 10)

InitCloud ==
    /\ tl_pc = "count"
    /\ max_cloud = 40
    /\ before_count \in 0..MaxScenes
    /\ after_count = 0
    /\ queries = 0
    /\ df = <<>>
    /\ par = DefaultParams
    /\ pc = "idle"
    /\ x = <<>>
    /\ y = <<>>
    /\ n = 0
    /\ bic1 = NaN
    /\ best_bic = PInf
    /\ best_k = None
    /\ k = 0
    /\ delta_bic = NaN
    /\ has_break = FALSE
    /\ result = <<>>
    /\ err = None
    /\ out = <<>>
    /\ t = <<>>
    /\ rnd = {}
    /\ call = 0
    /\ prev = None
    /\ PageIdle
    /\ UrbanIdle /\ ClientIdle /\ ParserIdle /\ PeriodsIdle

\* lines 221-222: the scenes under the current limit are counted; the call
\* returns a count or raises
CloudCount ==
    /\ tl_pc = "count"
    /\ queries < MaxQueries
    /\ queries' = queries + 1
    /\ \/ /\ after_count' \in 0..MaxScenes
          /\ tl_pc' = "test"
       \/ /\ tl_pc' = "raised"
          /\ UNCHANGED after_count
    /\ UNCHANGED <<max_cloud, before_count>>
    /\ UNCHANGED <<detVars, pageVars, ucVars, eeVars, psVars, bpVars>>

\* lines 223-229: leave the loop, or tighten the limit and count again
CloudTest ==
    /\ tl_pc = "test"
    /\ IF TooFewRetained(after_count, before_count) \/ max_cloud < 10
       THEN /\ tl_pc' = "done"
            /\ UNCHANGED max_cloud
       ELSE /\ max_cloud' = Tighten(max_cloud)
            /\ tl_pc' = "count"
    /\ UNCHANGED <<before_count, after_count, queries>>
    /\ UNCHANGED <<detVars, pageVars, ucVars, eeVars, psVars, bpVars>>

NextCloud == CloudCount \/ CloudTest

SpecCloud == InitCloud /\ [][NextCloud]_vars

\* the script runs on: a step that can be taken is taken
SpecCloudFair == SpecCloud /\ WF_vars(NextCloud)

\* the limits the loop passes through, in order
CloudLimits == <<40, 30, 20, 10, 5>>

CloudBounded ==
    /\ queries <= 5
    /\ \E j \in 1..5 : max_cloud = CloudLimits[j]
    /\ tl_pc \in {"test", "done", "raised"} =>
           max_cloud = CloudLimits[queries]
    /\ tl_pc = "count" => max_cloud = CloudLimits[queries + 1]
    /\ tl_pc = "done" =>
           \/ 100 * after_count < 40 * before_count
           \/ before_count = 0 /\ after_count = 0
           \/ max_cloud = 5
    /\ (tl_pc = "count" /\ queries > 0) =>
           /\ 100 * after_count >= 40 * before_count
           /\ before_count = 0 => after_count > 0
           /\ max_cloud < 40

\* C29: the loop ends, whatever counts the service returns; it makes at
\* most 5 count queries, max_cloud takes the values 40, 30, 20, 10, 5 in
\* that order, one per query, and the loop is left exactly when the
\* retained share is below 40 per cent or max_cloud is below 10.
C29_CloudLoopTerminates ==
    /\ []CloudBounded
    /\ <>(tl_pc \in {"done", "raised"})

\* the loop went through all five limits and ended at the last one with
\* enough scenes retained
C29_Witness ==
    /\ tl_pc = "done"
    /\ queries = 5
    /\ max_cloud = 5
    /\ before_count > 0
    /\ 100 * after_count >= 40 * before_count

(***************************************************************************)
(* build_periods (src/pages/7_LS_Timelapse.py, lines 82-99).  A datetime   *)
(* is a record of year, month and day; the constructor accepts the years   *)
(* 1 to 9999 (datetime.MINYEAR, datetime.MAXYEAR) and raises ValueError    *)
(* for any other.                                                          *)
(***************************************************************************)
Date(yy, mm, dd) == [year |-> yy, month |-> mm, day |-> dd]

\* datetime(yy, mm, dd) does not raise
ValidDate(yy, mm, dd) == yy \in 1..9999 /\ mm \in 1..12 /\ dd \in 1..31

\* a <= b of two datetimes
DateLe(a, b) ==
    \/ a.year < b.year
    \/ a.year = b.year /\ a.month < b.month
    \/ a.year = b.year /\ a.month = b.month /\ a.day <= b.day

\* the month is advanced, the year is not
AddMonthsNoCarry(d, months) ==
    LET m == d.month - 1 + months
    IN  [yy |-> d.year, mm |-> (m % 12) + 1]
\* lines 82-86: the year and month add_months passes to datetime(y, m, 1)
AddMonths(d, months) ==
    LET m == d.month - 1 + months
    IN  [yy |-> d.year + (m \div 12), mm |-> (m % 12) + 1]

\* the periods the model follows
MaxPeriods == 44 + MaxLen

\* the arguments: the years of the page (lines 35-36, 196-198), short
\* ranges of years in both orders, and ranges at the two ends of the
\* years a datetime can hold
YearPairs ==
    {<<1984, 2025>>}
        \cup {<<a, b>> : a \in 1984..(1985 + MaxLen), b \in 1984..(1985 + MaxLen)}
        \cup {<<a, b>> : a \in (9998 - MaxLen)..9999, b \in (9998 - MaxLen)..10000}
        \cup {<<a, b>> : a \in 0..2, b \in 0..2}

InitPeriods ==
    /\ \E yp \in YearPairs : start_y = yp[1] /\ end_y = yp[2]
    /\ bp_pc = "start"
    /\ cur = 0
    /\ periods = <<>>
    /\ bp_err = <<>>
    /\ df = <<>>
    /\ par = DefaultParams
    /\ pc = "idle"
    /\ x = <<>>
    /\ y = <<>>
    /\ n = 0
    /\ bic1 = NaN
    /\ best_bic = PInf
    /\ best_k = None
    /\ k = 0
    /\ delta_bic = NaN
    /\ has_break = FALSE
    /\ result = <<>>
    /\ err = None
    /\ out = <<>>
    /\ t = <<>>
    /\ rnd = {}
    /\ call = 0
    /\ prev = None
    /\ PageIdle
    /\ UrbanIdle /\ ClientIdle /\ ParserIdle /\ CloudIdle

\* lines 89-93: start, end, size, periods and cur are set
PeriodsStart ==
    /\ bp_pc = "start"
    /\ IF ValidDate(start_y, 1, 1) /\ ValidDate(end_y, 12, 31)
       THEN /\ cur' = Date(start_y, 1, 1)
            /\ bp_pc' = "loop"
            /\ UNCHANGED bp_err
       ELSE /\ bp_err' = <<"ValueError">>
            /\ bp_pc' = "raised"
            /\ UNCHANGED cur
    /\ UNCHANGED <<start_y, end_y, periods>>
    /\ UNCHANGED <<detVars, pageVars, ucVars, eeVars, psVars, tlVars>>

\* lines 94-98: one pass of the loop
PeriodsStep ==
    /\ bp_pc = "loop"
    /\ DateLe(cur, Date(end_y, 12, 31))
    /\ Len(periods) < MaxPeriods
    /\ LET nxt == AddMonths(cur, 12) IN
       IF ValidDate(nxt.yy, nxt.mm, 1)
       THEN /\ periods' = Append(periods,
                                 [start |-> cur,
                                  end |-> Date(nxt.yy, nxt.mm, 1),
                                  label |-> Decimal(cur.year)])
            /\ cur' = Date(nxt.yy, nxt.mm, 1)
            /\ UNCHANGED <<bp_pc, bp_err>>
       ELSE /\ bp_err' = <<"ValueError">>
            /\ bp_pc' = "raised"
            /\ UNCHANGED <<cur, periods>>
    /\ UNCHANGED <<start_y, end_y>>
    /\ UNCHANGED <<detVars, pageVars, ucVars, eeVars, psVars, tlVars>>

\* lines 94 and 99: cur is past the end, the periods are returned
PeriodsReturn ==
    /\ bp_pc = "loop"
    /\ ~DateLe(cur, Date(end_y, 12, 31))
    /\ bp_pc' = "returned"
    /\ UNCHANGED <<start_y, end_y, cur, periods, bp_err>>
    /\ UNCHANGED <<detVars, pageVars, ucVars, eeVars, psVars, tlVars>>

NextPeriods == PeriodsStart \/ PeriodsStep \/ PeriodsReturn

SpecPeriods == InitPeriods /\ [][NextPeriods]_vars

\* the number a text of decimal digits stands for
RECURSIVE NumberOf(_)
NumberOf(digits) ==
    IF digits = <<>> THEN 0
    ELSE 10 * NumberOf(SubSeq(digits, 1, Len(digits) - 1))
             + (Code(digits[Len(digits)]) - 48)

January1(yy) == [year |-> yy, month |-> 1, day |-> 1]

\* the periods are those of the years start_y .. start_y + count - 1
YearlyPeriods(count) ==
    /\ Len(periods) = count
    /\ \A i \in 1..Len(periods) :
           /\ periods[i].start = January1(start_y + i - 1)
           /\ periods[i].end = January1(start_y + i)
           /\ NumberOf(periods[i].label) = start_y + i - 1
           /\ Len(periods[i].label) = Len(Decimal(start_y + i - 1))
    /\ \A i \in 1..(Len(periods) - 1) :
           /\ periods[i].end = periods[i + 1].start
           /\ periods[i].start.year < periods[i + 1].start.year

BuildFinished == bp_pc \in {"returned", "raised"}

\* C30 as stated: for start_y <= end_y the call returns the
\* end_y - start_y + 1 yearly periods, whatever the years
C30_Original ==
    (BuildFinished /\ start_y <= end_y) =>
        /\ bp_pc = "returned"
        /\ YearlyPeriods(end_y - start_y + 1)

\* C30: for 1 <= start_y <= end_y <= 9998 the call returns exactly
\* end_y - start_y + 1 periods in ascending order, the i-th from 1 January
\* of start_y + i to 1 January of the next year, labelled with its start
\* year, each ending where the next starts; the loop never makes more
\* passes than that.  With end_y = 9999 (or a year outside 1..9999) the
\* call raises ValueError instead.
C30_YearlyPeriods ==
    /\ (BuildFinished /\ 1 <= start_y /\ start_y <= end_y /\ end_y <= 9998) =>
           /\ bp_pc = "returned"
           /\ YearlyPeriods(end_y - start_y + 1)
    /\ Len(periods) <= Max(0, end_y - start_y + 1)
    /\ (BuildFinished /\ start_y <= end_y
            /\ (start_y < 1 \/ end_y > 9998)) =>
           /\ bp_pc = "raised"
           /\ bp_err = <<"ValueError">>

\* the call of the page, build_periods(1984, 2025), has returned
C30_Witness ==
    /\ bp_pc = "returned"
    /\ start_y = 1984
    /\ end_y = 2025
    /\ Len(periods) = 42

====
